---- MODULE Spec2Model ----
(***************************************************************************)
(* fitcheck: the fit scorer (src/lib/gemini-service.ts), the product-page  *)
(* scraper (src/lib/scraper-service.ts) and the import-url handler.        *)
(*                                                                         *)
(* Numbers of the program are IEEE doubles.  The model keeps them exact:   *)
(* a finite value is a reduced fraction [num, den] with den > 0, and the   *)
(* two infinities a division by zero produces are kept as such.            *)
(***************************************************************************)
EXTENDS Integers, Sequences, FiniteSets, TLC

VARIABLES
    \* checkFitCompatibility
    userMeasurements,   \* Object.entries order: a sequence of [key, value]
    itemMeasurements,   \* a function from the keys the item holds to numbers
    fitPc,              \* "idle" | "loop" | "done"
    fitIdx,             \* position of the for..of loop in the user's entries
    warnings,
    recommendations,
    totalDiff,
    measurementCount,
    fitResult,
    \* extractPrice
    priceHtml,          \* the document, a sequence of characters
    pricePc,            \* "idle" | "loop" | "done"
    patternIdx,         \* position of the for..of loop in pricePatterns
    priceData,          \* the returned object
    \* scrapeProductPage and scrapeSizeChart, one entry per call
    pc,                 \* where the call stands
    url,                \* the argument
    requests,           \* HTTP GETs the call has issued
    response,           \* what axios.get settled with
    productData,        \* the record under construction
    jsonLd,             \* extractJsonLd(html)
    ldIdx,              \* position of the loop over jsonLd
    sizeChart,          \* the chart under construction
    tableIdx,           \* position of the loop over the tables
    result,             \* what the returned promise settled with
    \* the import-url handler (POST)
    importPc,           \* where the handler stands
    session,            \* the user id of the session, "" without one
    requestBody,        \* the body of the request
    sizingData,
    clothingItems,      \* the rows prisma.clothingItem.create has written
    reply,              \* the response of the handler
    \* extractMetaTags
    metaHtml,           \* the document, a sequence of elements
    metaPc,             \* "idle" | "call" | "done"
    metaReturned,       \* the returned mapping
    \* getSizeChartUrl
    guideBrand,         \* the arguments
    guideCategory,
    guidePc,            \* "idle" | "call" | "done"
    guideUrl,           \* the returned value
    \* the try-on route (POST)
    tryPc,              \* where the handler stands
    trySession,         \* the user id of the session, "" without one
    tryForm,            \* the fields of the form
    tryImage,           \* what generateVirtualTryOn settled with
    tryHistory,         \* the rows prisma.tryOnHistory.create has written
    tryReply,           \* the response of the handler
    \* extractImages
    imageHtml,          \* the document, a sequence of elements
    imageBase,          \* baseUrl
    imagePc,            \* "idle" | "call" | "done"
    imagesReturned,     \* the returned array
    \* handleApiResponse
    apiResponse,        \* the response of the model
    apiContext,         \* the context argument
    apiPc,              \* "idle" | "call" | "done"
    apiResult,          \* the returned string or the thrown error
    \* the VirtualTryOn component: its state after the last render
    userImage,
    clothingImage,
    resultImage,
    isLoading,
    uiError,            \* the state named error
    activeTab,
    clothingUrl,
    inFlight            \* the handler calls that have not settled yet

fitVars == <<userMeasurements, itemMeasurements, fitPc, fitIdx, warnings,
             recommendations, totalDiff, measurementCount, fitResult>>

priceVars == <<priceHtml, pricePc, patternIdx, priceData>>

scrapeVars == <<pc, url, requests, response, productData, jsonLd, ldIdx,
                sizeChart, tableIdx, result>>

importVars == <<importPc, session, requestBody, sizingData, clothingItems, reply>>

metaVars == <<metaHtml, metaPc, metaReturned>>

guideVars == <<guideBrand, guideCategory, guidePc, guideUrl>>

tryVars == <<tryPc, trySession, tryForm, tryImage, tryHistory, tryReply>>

imageVars == <<imageHtml, imageBase, imagePc, imagesReturned>>

apiVars == <<apiResponse, apiContext, apiPc, apiResult>>

uiVars == <<userImage, clothingImage, resultImage, isLoading, uiError, activeTab,
            clothingUrl, inFlight>>

vars == <<fitVars, priceVars, scrapeVars, importVars, metaVars, guideVars, tryVars,
          imageVars, apiVars, uiVars>>

\* what the actions of one part leave alone
notFit == <<priceVars, scrapeVars, importVars, metaVars, guideVars, tryVars,
    imageVars, apiVars, uiVars>>

notPrice == <<fitVars, scrapeVars, importVars, metaVars, guideVars, tryVars,
    imageVars, apiVars, uiVars>>

notScrape == <<fitVars, priceVars, importVars, metaVars, guideVars, tryVars,
    imageVars, apiVars, uiVars>>

notImport == <<fitVars, priceVars, metaVars, guideVars, tryVars,
    imageVars, apiVars, uiVars>>

notMeta == <<fitVars, priceVars, scrapeVars, importVars, guideVars, tryVars,
    imageVars, apiVars, uiVars>>

notGuide == <<fitVars, priceVars, scrapeVars, importVars, metaVars, tryVars,
    imageVars, apiVars, uiVars>>

notTry == <<fitVars, priceVars, scrapeVars, importVars, metaVars, guideVars,
    imageVars, apiVars, uiVars>>

notImage == <<fitVars, priceVars, scrapeVars, importVars, metaVars, guideVars, tryVars,
    apiVars, uiVars>>

notApi == <<fitVars, priceVars, scrapeVars, importVars, metaVars, guideVars, tryVars,
    imageVars, uiVars>>

notUi == <<fitVars, priceVars, scrapeVars, importVars, metaVars, guideVars, tryVars,
    imageVars, apiVars>>

None == "none"

\* the calls of scrapeProductPage and of scrapeSizeChart the model follows
ProductCalls == {"p1", "p2", "p3"}

ChartCalls == {"s1"}

CallIds == ProductCalls \cup ChartCalls

----------------------------------------------------------------------------
(* Arithmetic on exact numbers *)

Abs(x) == IF x < 0 THEN -x ELSE x

RECURSIVE GCD(_, _)
GCD(a, b) == IF b = 0 THEN a ELSE GCD(b, a % b)

\* the finite number n/d (d # 0), reduced, with a positive denominator
Frac(n, d) ==
    LET g == GCD(Abs(n), Abs(d))
        s == IF d < 0 THEN -1 ELSE 1
    IN  [inf |-> FALSE, num |-> (s * n) \div g, den |-> Abs(d) \div g]

\* +Infinity (sign 1) and -Infinity (sign -1)
Infinity(sign) == [inf |-> TRUE, num |-> sign, den |-> 1]

Zero == Frac(0, 1)

NumLess(a, b) ==
    IF a.inf /\ b.inf THEN a.num < b.num
    ELSE IF a.inf THEN a.num < 0
    ELSE IF b.inf THEN b.num > 0
    ELSE a.num * b.den < b.num * a.den

NumAbs(a) == [a EXCEPT !.num = Abs(a.num)]

\* a + b for b >= 0 finite or +Infinity and a likewise (no Infinity - Infinity)
NumAdd(a, b) ==
    IF a.inf THEN a
    ELSE IF b.inf THEN b
    ELSE Frac(a.num * b.den + b.num * a.den, a.den * b.den)

\* a / n for an integer n > 0
NumDivInt(a, n) == IF a.inf THEN a ELSE Frac(a.num, a.den * n)

\* 100 - a
HundredMinus(a) ==
    IF a.inf THEN Infinity(-a.num) ELSE Frac(100 * a.den - a.num, a.den)

NumMax(a, b) == IF NumLess(a, b) THEN b ELSE a

\* Number.prototype.toFixed(0): the nearest integer, halves away from zero;
\* an infinite value prints as "Infinity"
ToFixed0(a) ==
    IF a.inf THEN "Infinity"
    ELSE LET n == Abs(a.num)
             r == (2 * n + a.den) \div (2 * a.den)
         IN  IF a.num < 0 THEN -r ELSE r

----------------------------------------------------------------------------
(* checkFitCompatibility *)

MaxKeys == 2

KeyNames == <<"chest", "waist", "length", "hips">>

Keys == {KeyNames[i] : i \in 1..MaxKeys}

UserValues == {0, 20, 100}

ItemValues == {0, 19, 90, 95, 110, 111, 250}

\* the mappings a caller can pass: the user's in insertion order, no key twice
UserMappings ==
    {s \in UNION {[1..n -> [key : Keys, value : UserValues]] : n \in 0..MaxKeys} :
        \A i, j \in DOMAIN s : i # j => s[i].key # s[j].key}

ItemMappings == UNION {[K -> ItemValues] : K \in SUBSET Keys}

\* ((itemValue - userValue) / userValue) * 100; itemValue is truthy here, so a
\* zero userValue divides a non-zero number: an infinity of that sign
PercentDiff(userValue, itemValue) ==
    IF userValue = 0
    THEN Infinity(IF itemValue > 0 THEN 1 ELSE -1)
    ELSE Frac((itemValue - userValue) * 100, userValue)

TightLimit == -5
LooseLimit == 10
FitThreshold == 70
DefaultAvgDiff == 100

\* if (itemValue): undefined (key not held), 0 and NaN are falsy
Truthy(item, key) == key \in DOMAIN item /\ item[key] # 0

IsTight(diff) == NumLess(diff, Frac(TightLimit, 1))

\* a variant that warns from twice the limit on
IsLooseFromTwiceTheLimit(diff) == NumLess(Frac(2 * LooseLimit, 1), diff)

IsLoose(diff) == NumLess(Frac(LooseLimit, 1), diff)

TightWarning(key, diff) ==
    [key |-> key, kind |-> "tight", pct |-> ToFixed0(NumAbs(diff))]

LooseWarning(key, diff) ==
    [key |-> key, kind |-> "loose", pct |-> ToFixed0(diff)]

\* a variant that names no key
SizeUpForAnyKey(key) == [key |-> "item", kind |-> "sizeUp"]

SizeUp(key) == [key |-> key, kind |-> "sizeUp"]

SizeDownOrTailor(key) == [key |-> key, kind |-> "sizeDownOrTailor"]

AvgDiffDefaultZero(total, count) ==
    IF count > 0 THEN NumDivInt(total, count) ELSE Zero

AvgDiff(total, count) ==
    IF count > 0 THEN NumDivInt(total, count) ELSE Frac(DefaultAvgDiff, 1)

Score(total, count) == NumMax(Zero, HundredMinus(AvgDiff(total, count)))

FitsByScoreOnly(score, warns) == NumLess(Frac(FitThreshold, 1), score)

Fits(score, warns) == NumLess(Frac(FitThreshold, 1), score) /\ Len(warns) = 0

FitIdle ==
    /\ userMeasurements = <<>>
    /\ itemMeasurements = <<>>
    /\ fitPc = "idle"
    /\ fitIdx = 0
    /\ warnings = <<>>
    /\ recommendations = <<>>
    /\ totalDiff = Zero
    /\ measurementCount = 0
    /\ fitResult = None

FitInit ==
    /\ userMeasurements \in UserMappings
    /\ itemMeasurements \in ItemMappings
    /\ fitPc = "loop"
    /\ fitIdx = 1
    /\ warnings = <<>>
    /\ recommendations = <<>>
    /\ totalDiff = Zero
    /\ measurementCount = 0
    /\ fitResult = None

\* one pass of the for..of loop over Object.entries(userMeasurements)
FitCompare ==
    /\ fitPc = "loop"
    /\ fitIdx <= Len(userMeasurements)
    /\ LET key == userMeasurements[fitIdx].key
           userValue == userMeasurements[fitIdx].value
       IN  IF Truthy(itemMeasurements, key)
           THEN LET diff == PercentDiff(userValue, itemMeasurements[key])
                IN  /\ totalDiff' = NumAdd(totalDiff, NumAbs(diff))
                    /\ measurementCount' = measurementCount + 1
                    /\ IF IsTight(diff)
                       THEN /\ warnings' = Append(warnings, TightWarning(key, diff))
                            /\ recommendations' = Append(recommendations, SizeUp(key))
                       ELSE IF IsLoose(diff)
                       THEN /\ warnings' = Append(warnings, LooseWarning(key, diff))
                            /\ recommendations' =
                                   Append(recommendations, SizeDownOrTailor(key))
                       ELSE UNCHANGED <<warnings, recommendations>>
           ELSE UNCHANGED <<totalDiff, measurementCount, warnings, recommendations>>
    /\ fitIdx' = fitIdx + 1
    /\ UNCHANGED <<userMeasurements, itemMeasurements, fitPc, fitResult>>
    /\ UNCHANGED notFit

\* after the loop: the average, the score, the verdict, and the return
FitReturn ==
    /\ fitPc = "loop"
    /\ fitIdx > Len(userMeasurements)
    /\ LET score == Score(totalDiff, measurementCount)
       IN  fitResult' = [fits |-> Fits(score, warnings),
                         score |-> score,
                         warnings |-> warnings,
                         recommendations |-> recommendations]
    /\ fitPc' = "done"
    /\ UNCHANGED <<userMeasurements, itemMeasurements, fitIdx, warnings,
                   recommendations, totalDiff, measurementCount>>
    /\ UNCHANGED notFit

FitNext == FitCompare \/ FitReturn

----------------------------------------------------------------------------
(* extractPrice *)

(* A document is a sequence of characters.  The literals the patterns look  *)
(* for are single characters of the model: "KEY_PRICE" is the text          *)
(* "price" in double quotes (any case), "DATA_PRICE" the text data-price=   *)
(* (any case), "QUOTE" a double quote, "pound" and "euro" the two signs.    *)
Digits == {"0", "1", "4", "9"}

NumChars == Digits \cup {","}

CurrencySigns == {"$", "pound", "euro"}

Whitespace == {" "}

DigitValue(c) ==
    CASE c = "0" -> 0 [] c = "1" -> 1 [] c = "4" -> 4 [] c = "9" -> 9

NaN == [inf |-> FALSE, num |-> 0, den |-> 0]

\* a field or variable that holds no value: of a string, of a number
Undefined == "undefined"

UndefinedNumber == [inf |-> FALSE, num |-> 0, den |-> -1]

RECURSIVE Pow10(_)
Pow10(n) == IF n = 0 THEN 1 ELSE 10 * Pow10(n - 1)

RECURSIVE DigitsValue(_)
DigitsValue(ds) ==
    IF ds = <<>> THEN 0
    ELSE 10 * DigitsValue(SubSeq(ds, 1, Len(ds) - 1)) + DigitValue(ds[Len(ds)])

\* String.prototype.replace(/,/g, '')
RECURSIVE RemoveCommas(_)
RemoveCommas(str) ==
    IF str = <<>> THEN <<>>
    ELSE IF Head(str) = "," THEN RemoveCommas(Tail(str))
    ELSE <<Head(str)>> \o RemoveCommas(Tail(str))

\* the last index j >= i - 1 with str[i..j] all in class
RunEnd(str, i, class) ==
    LET js == {j \in (i - 1)..Len(str) : \A k \in i..j : str[k] \in class}
    IN  CHOOSE j \in js : \A k \in js : k <= j

\* parseFloat on digits with at most one dot: the longest numeric prefix,
\* NaN when it holds no digit
ParseFloat(str) ==
    LET a == RunEnd(str, 1, Digits)
        hasDot == a + 1 <= Len(str) /\ str[a + 1] = "."
        b == IF hasDot THEN RunEnd(str, a + 2, Digits) ELSE a
        intDigits == SubSeq(str, 1, a)
        fracDigits == IF hasDot THEN SubSeq(str, a + 2, b) ELSE <<>>
    IN  IF intDigits = <<>> /\ fracDigits = <<>> THEN NaN
        ELSE Frac(DigitsValue(intDigits \o fracDigits), Pow10(Len(fracDigits)))

IsNaN(x) == x = NaN

\* ([0-9,]+\.?[0-9]*) tried at position i: the index of its last character,
\* 0 when it does not match there.  Every quantifier is greedy and what
\* follows the group in each pattern cannot be met by giving characters back.
NumberEnd(str, i) ==
    LET a == RunEnd(str, i, NumChars)
    IN  IF i > Len(str) \/ a < i THEN 0
        ELSE IF a + 1 <= Len(str) /\ str[a + 1] = "."
             THEN RunEnd(str, a + 2, Digits)
             ELSE a

\* \s* from position i: the first position after the whitespace
SkipSpace(str, i) == RunEnd(str, i, Whitespace) + 1

CharAt(str, i) == IF i \in DOMAIN str THEN str[i] ELSE None

\* what a pattern that does not match gives; a capture holds a character
NoMatch == <<>>

Capture(str, from) ==
    IF NumberEnd(str, from) = 0 THEN NoMatch
    ELSE SubSeq(str, from, NumberEnd(str, from))

\* /[\$£€]\s*([0-9,]+\.?[0-9]*)/ at position i: match[1], or NoMatch
SymbolPrefixedAt(str, i) ==
    IF CharAt(str, i) \in CurrencySigns
    THEN Capture(str, SkipSpace(str, i + 1))
    ELSE NoMatch

\* /([0-9,]+\.?[0-9]*)\s*[\$£€]/ at position i
SymbolSuffixedAt(str, i) ==
    LET e == NumberEnd(str, i)
    IN  IF e # 0 /\ CharAt(str, SkipSpace(str, e + 1)) \in CurrencySigns
        THEN SubSeq(str, i, e)
        ELSE NoMatch

\* /"price"\s*:\s*"?([0-9,]+\.?[0-9]*)"?/i at position i
JsonPriceAt(str, i) ==
    LET colon == SkipSpace(str, i + 1)
        q == SkipSpace(str, colon + 1)
        from == IF CharAt(str, q) = "QUOTE" THEN q + 1 ELSE q
    IN  IF CharAt(str, i) = "KEY_PRICE" /\ CharAt(str, colon) = ":"
        THEN Capture(str, from)
        ELSE NoMatch

\* /data-price=["']([0-9,]+\.?[0-9]*)/i at position i
DataPriceAt(str, i) ==
    IF CharAt(str, i) = "DATA_PRICE" /\ CharAt(str, i + 1) = "QUOTE"
    THEN Capture(str, i + 2)
    ELSE NoMatch

PatternAt(name, str, i) ==
    CASE name = "prefixed" -> SymbolPrefixedAt(str, i)
      [] name = "suffixed" -> SymbolSuffixedAt(str, i)
      [] name = "json" -> JsonPriceAt(str, i)
      [] name = "data" -> DataPriceAt(str, i)

\* String.prototype.match with a pattern without the g flag: the capture of
\* the leftmost match, NoMatch (null) when there is none
Match(str, name) ==
    LET at == {i \in DOMAIN str : PatternAt(name, str, i) # NoMatch}
    IN  IF at = {} THEN NoMatch
        ELSE PatternAt(name, str, CHOOSE i \in at : \A j \in at : i <= j)

pricePatternsSwapped == <<"suffixed", "prefixed", "json", "data">>

pricePatterns == <<"prefixed", "suffixed", "json", "data">>

Includes(str, c) == \E i \in DOMAIN str : str[i] = c

DetectCurrencyEuroFirst(str) ==
    IF Includes(str, "euro") THEN "EUR"
    ELSE IF Includes(str, "pound") THEN "GBP"
    ELSE "USD"

DetectCurrency(str) ==
    IF Includes(str, "pound") THEN "GBP"
    ELSE IF Includes(str, "euro") THEN "EUR"
    ELSE "USD"

\* { price?: number; currency?: string }: a field the object does not hold
\* reads undefined
NoPrice == [price |-> UndefinedNumber, currency |-> Undefined]

PriceObject(price, currency) == [price |-> price, currency |-> currency]

\* one pass of the loop over pricePatterns: the object returned by that pass,
\* NoPrice when the pass returns nothing and the loop goes on
TryPattern(str, idx) ==
    LET match == Match(str, pricePatterns[idx])
    IN  IF match = NoMatch THEN NoPrice
        ELSE LET price == ParseFloat(RemoveCommas(match))
             IN  IF IsNaN(price) THEN NoPrice
                 ELSE PriceObject(price, DetectCurrency(str))

RECURSIVE ExtractPriceFrom(_, _)
ExtractPriceFrom(str, idx) ==
    IF idx > Len(pricePatterns) THEN NoPrice
    ELSE IF TryPattern(str, idx) # NoPrice THEN TryPattern(str, idx)
    ELSE ExtractPriceFrom(str, idx + 1)

extractPrice(str) == ExtractPriceFrom(str, 1)

MaxFrags == 3

\* the pieces documents are put together from
PriceFragments ==
    { <<"$">>, <<"pound">>, <<"euro">>, <<" ">>, <<"x">>, <<",">>, <<".">>,
      <<"0">>, <<"4", "9", ".", "9", "9">>, <<"1", ",", "0", "4">>,
      <<"KEY_PRICE", ":">>, <<"DATA_PRICE", "QUOTE">>,
      <<"DATA_PRICE", "QUOTE", "4", "9", ".", "9", "9", "QUOTE">> }

RECURSIVE Concat(_)
Concat(seqs) == IF seqs = <<>> THEN <<>> ELSE Head(seqs) \o Concat(Tail(seqs))

PriceDocuments ==
    {Concat(fs) : fs \in UNION {[1..n -> PriceFragments] : n \in 0..MaxFrags}}

PriceIdle ==
    /\ priceHtml = <<>>
    /\ pricePc = "idle"
    /\ patternIdx = 0
    /\ priceData = NoPrice

PriceInit ==
    /\ priceHtml \in PriceDocuments
    /\ pricePc = "loop"
    /\ patternIdx = 1
    /\ priceData = NoPrice

\* a pass of the loop that returns { price, currency }
PriceFound ==
    /\ pricePc = "loop"
    /\ patternIdx <= Len(pricePatterns)
    /\ TryPattern(priceHtml, patternIdx) # NoPrice
    /\ priceData' = TryPattern(priceHtml, patternIdx)
    /\ pricePc' = "done"
    /\ UNCHANGED <<priceHtml, patternIdx>>
    /\ UNCHANGED notPrice

\* a pass of the loop with no match or a match that is not a number
PriceNextPattern ==
    /\ pricePc = "loop"
    /\ patternIdx <= Len(pricePatterns)
    /\ TryPattern(priceHtml, patternIdx) = NoPrice
    /\ patternIdx' = patternIdx + 1
    /\ UNCHANGED <<priceHtml, pricePc, priceData>>
    /\ UNCHANGED notPrice

\* return {} after the loop
PriceNotFound ==
    /\ pricePc = "loop"
    /\ patternIdx > Len(pricePatterns)
    /\ priceData' = NoPrice
    /\ pricePc' = "done"
    /\ UNCHANGED <<priceHtml, patternIdx>>
    /\ UNCHANGED notPrice

PriceNext == PriceFound \/ PriceNextPattern \/ PriceNotFound

----------------------------------------------------------------------------
(* Product pages *)

(* A page is a sequence of elements, each a record of one shape:            *)
(*   t = "meta"  <meta attr="key" content="content">                        *)
(*   t = "ld"    <script type="application/ld+json">ld</script>             *)
(*   t = "img"   <img ...> with the attributes attrs, in the tag's order    *)
(*   t = "lazy"  another tag that carries the attributes attrs              *)
(*   t = "text"  the characters chars                                       *)
NoLd ==
    [parse |-> "none", markup |-> FALSE, atType |-> Undefined, type |-> Undefined,
     name |-> Undefined, brandShape |-> "absent", brandName |-> Undefined,
     manufacturer |-> Undefined, description |-> Undefined,
     offersShape |-> "absent", price |-> <<>>, priceCurrency |-> Undefined,
     imageShape |-> "absent", image |-> Undefined]

Element(t) ==
    [t |-> t, attr |-> "", key |-> "", content |-> "", attrs |-> <<>>,
     chars |-> <<>>, ld |-> NoLd]

Meta(attr, key, content) ==
    [Element("meta") EXCEPT !.attr = attr, !.key = key, !.content = content]

Img(attrs) == [Element("img") EXCEPT !.attrs = attrs]

Lazy(attrs) == [Element("lazy") EXCEPT !.attrs = attrs]

Text(chars) == [Element("text") EXCEPT !.chars = chars]

JsonLd(ld) == [Element("ld") EXCEPT !.ld = ld]

Attr(name, value) == [name |-> name, value |-> value]

\* a string value of a JSON document that is not a string: typeof is not
\* 'string', and it is truthy
NonString == "[object Object]"

\* JSON-LD documents.  parse is "invalid" for text JSON.parse rejects, "null"
\* for the literal null, "object" for an object with the fields given;
\* markup tells that the text of the block holds the character <
LdObject == [NoLd EXCEPT !.parse = "object"]

LdInvalid == [NoLd EXCEPT !.parse = "invalid"]

LdNull == [NoLd EXCEPT !.parse = "null"]

LdProduct ==
    [LdObject EXCEPT !.atType = "Product", !.name = "LD Name",
                     !.brandShape = "object", !.brandName = "H&M",
                     !.description = "LD Description",
                     !.offersShape = "object", !.price = <<"1", "9">>,
                     !.priceCurrency = "EUR",
                     !.imageShape = "string", !.image = "https://cdn.example/ld.jpg"]

\* a Product that names only its manufacturer, as an Organization object
LdProductBare ==
    [LdObject EXCEPT !.type = "Product", !.manufacturer = NonString]

\* a Product whose offers is the empty array
LdProductNoOffer ==
    [LdObject EXCEPT !.atType = "Product", !.name = "LD Name 2",
                     !.offersShape = "emptyArray"]

\* a second Product, with values of its own for every field
LdProductOther ==
    [LdObject EXCEPT !.atType = "Product", !.name = "LD Other",
                     !.manufacturer = "ZARA",
                     !.description = "Other Description",
                     !.offersShape = "object", !.price = <<"4">>,
                     !.priceCurrency = "GBP",
                     !.imageShape = "string", !.image = "https://cdn.example/a.jpg"]

\* a Product that gives its name and nothing else
LdProductPlain ==
    [LdObject EXCEPT !.type = "Product", !.name = "LD Plain"]

\* a Product whose description is a piece of HTML
LdProductMarkup ==
    [LdObject EXCEPT !.markup = TRUE, !.atType = "Product", !.name = "LD Markup",
                     !.description = "<b>Warm</b>"]

LdOrganization ==
    [LdObject EXCEPT !.atType = "Organization", !.name = "LD Org"]

----------------------------------------------------------------------------
(* extractMetaTags *)

MetaKeys ==
    {"og:title", "og:description", "og:image", "twitter:title", "description"}

OgKeys == {"og:title", "og:description", "og:image"}

TwitterKeys == {"twitter:title"}

NoMetaTags == [k \in MetaKeys |-> Undefined]

\* the while loop of one pattern: every match, in document order, assigns
RECURSIVE MetaPass(_, _, _, _)
MetaPass(metaTags, html, attr, keys) ==
    IF html = <<>> THEN metaTags
    ELSE LET el == Head(html)
             hit == el.t = "meta" /\ el.attr = attr /\ el.key \in keys
         IN  MetaPass(IF hit THEN [metaTags EXCEPT ![el.key] = el.content]
                             ELSE metaTags,
                      Tail(html), attr, keys)

extractMetaTags(html) ==
    LET og == MetaPass(NoMetaTags, html, "property", OgKeys)
        twitter == MetaPass(og, html, "name", TwitterKeys)
    IN  MetaPass(twitter, html, "name", MetaKeys)

MetaIdle ==
    /\ metaHtml = <<>>
    /\ metaPc = "idle"
    /\ metaReturned = NoMetaTags

\* the elements the documents given to extractMetaTags are put together from
MetaElements ==
    { Meta("property", "og:title", "X"),
      Meta("property", "og:title", "Z"),
      Meta("name", "og:title", "Y"),
      Meta("name", "twitter:title", "Twitter Title"),
      Meta("name", "description", "Meta Description"),
      Meta("property", "description", "Property Description"),
      Meta("property", "og:image", "https://cdn.example/og.jpg"),
      Text(<<"size", " ", "M">>) }

MaxMetas == 2

MetaDocuments == UNION {[1..n -> MetaElements] : n \in 0..MaxMetas}

MetaInit ==
    /\ metaHtml \in MetaDocuments
    /\ metaPc = "call"
    /\ metaReturned = NoMetaTags

\* extractMetaTags(html) runs and returns
MetaExtract ==
    /\ metaPc = "call"
    /\ metaReturned' = extractMetaTags(metaHtml)
    /\ metaPc' = "done"
    /\ UNCHANGED metaHtml
    /\ UNCHANGED notMeta

----------------------------------------------------------------------------
(* extractJsonLd *)

\* the pattern <script type="application/ld+json">([^<]+)</script> matches a
\* block whose text holds no <; JSON.parse in try/catch: a block that does
\* not parse is skipped
RECURSIVE extractJsonLd(_)
extractJsonLd(html) ==
    IF html = <<>> THEN <<>>
    ELSE LET el == Head(html)
         IN  IF el.t = "ld" /\ ~el.ld.markup /\ el.ld.parse # "invalid"
             THEN <<el.ld>> \o extractJsonLd(Tail(html))
             ELSE extractJsonLd(Tail(html))

----------------------------------------------------------------------------
(* extractImages *)

\* url.includes('icon') || url.includes('logo')
IconOrLogo(href) ==
    href \in {"https://cdn.example/logo.png", "/img/icon.png",
              "https://www.nike.com/img/icon.png",
              "https://shop.example.co.uk/img/icon.png",
              "http://localhost/img/icon.png",
              "https://www.theiconic.com.au/p/1",
              "https://www.theiconic.com.au/img/b.jpg",
              "https://www.theiconic.com.au/img/icon.png"}

\* url.startsWith('http')
StartsWithHttp(href) ==
    href \in {"https://cdn.example/a.jpg", "https://cdn.example/logo.png",
             "https://cdn.example/og.jpg", "https://cdn.example/ld.jpg",
             "https://www.nike.com/t/air-shoes", "https://www.nike.com/img/b.jpg",
             "https://www.nike.com/img/icon.png",
             "https://shop.example.co.uk/p/1", "https://shop.example.co.uk/img/b.jpg",
             "https://shop.example.co.uk/img/icon.png",
             "http://localhost/jeans", "http://localhost/img/b.jpg",
             "http://localhost/img/icon.png",
             "https://www.theiconic.com.au/p/1",
             "https://www.theiconic.com.au/img/b.jpg",
             "https://www.theiconic.com.au/img/icon.png"}

\* the URLs a caller passes: the labels of new URL(url).hostname, the category
\* keywords the text of the URL holds, what a root-relative URL resolves to
UrlTable ==
    << [href |-> "https://www.nike.com/t/air-shoes",
        hostname |-> <<"www", "nike", "com">>, words |-> {"shoes"},
        resolved |-> [r \in {"/img/b.jpg", "/img/icon.png"} |->
                        IF r = "/img/b.jpg" THEN "https://www.nike.com/img/b.jpg"
                        ELSE "https://www.nike.com/img/icon.png"]],
       [href |-> "https://shop.example.co.uk/p/1",
        hostname |-> <<"shop", "example", "co", "uk">>, words |-> {},
        resolved |-> [r \in {"/img/b.jpg", "/img/icon.png"} |->
                        IF r = "/img/b.jpg" THEN "https://shop.example.co.uk/img/b.jpg"
                        ELSE "https://shop.example.co.uk/img/icon.png"]],
       [href |-> "http://localhost/jeans",
        hostname |-> <<"localhost">>, words |-> {"jeans"},
        resolved |-> [r \in {"/img/b.jpg", "/img/icon.png"} |->
                        IF r = "/img/b.jpg" THEN "http://localhost/img/b.jpg"
                        ELSE "http://localhost/img/icon.png"]],
       [href |-> "https://www.theiconic.com.au/p/1",
        hostname |-> <<"www", "theiconic", "com", "au">>, words |-> {},
        resolved |-> [r \in {"/img/b.jpg", "/img/icon.png"} |->
                        IF r = "/img/b.jpg" THEN "https://www.theiconic.com.au/img/b.jpg"
                        ELSE "https://www.theiconic.com.au/img/icon.png"]] >>

UrlEntry(href) == UrlTable[CHOOSE i \in DOMAIN UrlTable : UrlTable[i].href = href]

\* new URL(url, baseUrl).toString() for a root-relative url
ResolveUrl(href, baseUrl) == UrlEntry(baseUrl).resolved[href]

Absolute(href, baseUrl) ==
    IF StartsWithHttp(href) THEN href ELSE ResolveUrl(href, baseUrl)

\* Set.prototype.add on a set kept in insertion order
SetAdd(seq, x) ==
    IF \E i \in DOMAIN seq : seq[i] = x THEN seq ELSE Append(seq, x)

\* the attribute <img[^>]+src=["']([^"']+)["'] captures in one tag: [^>]+ is
\* greedy, so it is the last attribute of the tag whose name ends in src
\* (data-src does), and the search goes on after the tag
LastSrc(attrs) == attrs[Len(attrs)].value

RECURSIVE ImgPass(_, _, _)
ImgPass(images, html, baseUrl) ==
    IF html = <<>> THEN images
    ELSE LET el == Head(html)
             href == LastSrc(el.attrs)
         IN  ImgPass(IF el.t = "img" /\ el.attrs # <<>> /\ ~IconOrLogo(href)
                     THEN SetAdd(images, Absolute(href, baseUrl))
                     ELSE images,
                     Tail(html), baseUrl)

RECURSIVE AddDataSrc(_, _, _)
AddDataSrc(images, attrs, baseUrl) ==
    IF attrs = <<>> THEN images
    ELSE AddDataSrc(IF Head(attrs).name = "data-src"
                    THEN SetAdd(images, Absolute(Head(attrs).value, baseUrl))
                    ELSE images,
                    Tail(attrs), baseUrl)

RECURSIVE DataSrcPass(_, _, _)
DataSrcPass(images, html, baseUrl) ==
    IF html = <<>> THEN images
    ELSE DataSrcPass(AddDataSrc(images, Head(html).attrs, baseUrl),
                     Tail(html), baseUrl)

extractImages(html, baseUrl) ==
    DataSrcPass(ImgPass(<<>>, html, baseUrl), html, baseUrl)

ImageIdle ==
    /\ imageHtml = <<>>
    /\ imageBase = ""
    /\ imagePc = "idle"
    /\ imagesReturned = <<>>

MaxImgs == 2

\* the tags the documents given to extractImages are put together from
ImageElements ==
    { Img(<<Attr("src", "/img/b.jpg")>>),
      Img(<<Attr("src", "https://cdn.example/a.jpg")>>),
      Img(<<Attr("src", "https://cdn.example/logo.png")>>),
      Img(<<Attr("src", "https://cdn.example/a.jpg"), Attr("data-src", "/img/icon.png")>>),
      Img(<<Attr("src", "https://cdn.example/og.jpg"), Attr("data-src", "/img/b.jpg")>>),
      Lazy(<<Attr("data-src", "https://cdn.example/logo.png")>>),
      Lazy(<<Attr("data-src", "/img/b.jpg")>>) }

ImageDocuments == UNION {[1..n -> ImageElements] : n \in 0..MaxImgs}

ImageInit ==
    /\ imageHtml \in ImageDocuments
    /\ imageBase \in {UrlTable[i].href : i \in DOMAIN UrlTable}
    /\ imagePc = "call"
    /\ imagesReturned = <<>>

\* extractImages(html, baseUrl) runs and returns
ImageExtract ==
    /\ imagePc = "call"
    /\ imagesReturned' = extractImages(imageHtml, imageBase)
    /\ imagePc' = "done"
    /\ UNCHANGED <<imageHtml, imageBase>>
    /\ UNCHANGED notImage

----------------------------------------------------------------------------
(* The page as the patterns that run over the whole text see it *)

\* the characters of one element: a tag is the character "TAG", which no
\* pattern reads; a JSON-LD block shows the price it holds
Render(el) ==
    IF el.t = "text" THEN el.chars
    ELSE IF el.t = "ld" /\ el.ld.price # <<>>
         THEN <<"TAG", "KEY_PRICE", ":", "QUOTE">> \o el.ld.price \o <<"QUOTE", "TAG">>
         ELSE <<"TAG">>

RECURSIVE PageText(_)
PageText(html) ==
    IF html = <<>> THEN <<>> ELSE Render(Head(html)) \o PageText(Tail(html))

----------------------------------------------------------------------------
(* extractSizes *)

\* the keywords of categoryPatterns; in a page each is one character
ShirtWords == {"shirt", "blouse", "top"}
PantsWords == {"pants", "trousers", "jeans", "bottoms"}
DressWords == {"dress", "gown"}
ShoesWords == {"shoes", "sneakers", "boots", "footwear"}
JacketWords == {"jacket", "coat", "blazer", "outerwear"}

CategoryWords ==
    ShirtWords \cup PantsWords \cup DressWords \cup ShoesWords \cup JacketWords

\* "M" is a letter size, "W" another capital letter, "size" the word size in
\* any case, "x" a small letter
SizeLetters == {"M"}

CapitalLetters == {"M", "W"}

\* characters whose text begins, and ends, with a word character (\w)
WordStart == Digits \cup CapitalLetters \cup CategoryWords \cup {"x", "size", "DATA_PRICE"}

WordEnd == Digits \cup CapitalLetters \cup CategoryWords \cup {"x", "size"}

\* \b before position i and after position j, both holding word characters
BoundaryBefore(str, i) == i = 1 \/ str[i - 1] \notin WordEnd

BoundaryAfter(str, j) == j = Len(str) \/ str[j + 1] \notin WordStart

\* /\b(XXS|XS|S|M|L|XL|XXL|XXXL)\b/g at position i: the last index, or 0
LetterSizeEnd(str, i) ==
    IF str[i] \in SizeLetters /\ BoundaryBefore(str, i) /\ BoundaryAfter(str, i)
    THEN i ELSE 0

\* /\b(size\s*[0-9]+)\b/gi at position i
SizeNumberEnd(str, i) ==
    LET d == SkipSpace(str, i + 1)
        e == RunEnd(str, d, Digits)
    IN  IF str[i] = "size" /\ BoundaryBefore(str, i) /\ e >= d /\ BoundaryAfter(str, e)
        THEN e ELSE 0

\* /\b([0-9]+[A-Z])\b/g at position i
NumberLetterEnd(str, i) ==
    LET e == RunEnd(str, i, Digits)
    IN  IF e >= i /\ BoundaryBefore(str, i) /\ CharAt(str, e + 1) \in CapitalLetters
           /\ BoundaryAfter(str, e + 1)
        THEN e + 1 ELSE 0

SizeMatchEnd(name, str, i) ==
    CASE name = "letter" -> LetterSizeEnd(str, i)
      [] name = "sizeNumber" -> SizeNumberEnd(str, i)
      [] name = "numberLetter" -> NumberLetterEnd(str, i)

sizePatterns == <<"letter", "sizeNumber", "numberLetter">>

\* String.prototype.toUpperCase on a match
RECURSIVE ToUpperCase(_)
ToUpperCase(str) ==
    IF str = <<>> THEN <<>>
    ELSE <<IF Head(str) = "size" THEN "SIZE" ELSE Head(str)>> \o ToUpperCase(Tail(str))

\* the while loop of pattern.exec with the g flag, from position i
RECURSIVE SizeScan(_, _, _, _)
SizeScan(sizes, str, name, i) ==
    IF i > Len(str) THEN sizes
    ELSE LET e == SizeMatchEnd(name, str, i)
         IN  IF e = 0 THEN SizeScan(sizes, str, name, i + 1)
             ELSE SizeScan(SetAdd(sizes, ToUpperCase(SubSeq(str, i, e))), str, name, e + 1)

RECURSIVE SizesFrom(_, _, _)
SizesFrom(sizes, str, idx) ==
    IF idx > Len(sizePatterns) THEN sizes
    ELSE SizesFrom(SizeScan(sizes, str, sizePatterns[idx], 1), str, idx + 1)

extractSizes(str) == SizesFrom(<<>>, str, 1)

----------------------------------------------------------------------------
(* scrapeProductPage: assembling the record *)

\* ProductData; a field the object does not hold reads undefined.  sizes is
\* undefined when empty (the code stores undefined for an empty list)
NoProductData ==
    [name |-> Undefined, brand |-> Undefined, price |-> UndefinedNumber,
     currency |-> Undefined, imageUrl |-> Undefined, sizes |-> <<>>,
     description |-> Undefined, category |-> Undefined]

\* truthiness of a string-valued and of a number-valued expression
TruthyString(v) == v # Undefined /\ v # ""

TruthyNumber(v) == v # UndefinedNumber /\ ~IsNaN(v) /\ (v.inf \/ v.num # 0)

\* a || b
OrString(a, b) == IF TruthyString(a) THEN a ELSE b

OrNumber(a, b) == IF TruthyNumber(a) THEN a ELSE b

\* typeof v === 'string' ? v : undefined
StringOrUndefined(v) == IF v = NonString THEN Undefined ELSE v

First(seq) == IF seq = <<>> THEN Undefined ELSE seq[1]

\* a variant that keeps the name in an object of the module, which a call
\* in flight finds filled in by a call that returned before it
BuildProductDataShared(metaTags, images, sizes, priceInfo) ==
    LET returned == {d \in ProductCalls : result[d].kind = "resolved"}
        shared == IF returned = {} THEN Undefined
                  ELSE result[CHOOSE d \in returned : TRUE].value.name
    IN  [NoProductData EXCEPT
            !.name = OrString(shared,
                              OrString(metaTags["og:title"], metaTags["twitter:title"])),
            !.description = OrString(metaTags["og:description"], metaTags["description"]),
            !.imageUrl = OrString(metaTags["og:image"], First(images)),
            !.price = priceInfo.price,
            !.currency = priceInfo.currency,
            !.sizes = sizes]

\* the object literal built from the extractors' results
BuildProductData(metaTags, images, sizes, priceInfo) ==
    [NoProductData EXCEPT
        !.name = OrString(metaTags["og:title"], metaTags["twitter:title"]),
        !.description = OrString(metaTags["og:description"], metaTags["description"]),
        !.imageUrl = OrString(metaTags["og:image"], First(images)),
        !.price = priceInfo.price,
        !.currency = priceInfo.currency,
        !.sizes = sizes]

IsProduct(product) == product.atType = "Product" \/ product.type = "Product"

\* reading a property of null or undefined throws
Throws(product) ==
    \/ product.parse = "null"
    \/ (IsProduct(product) /\ product.offersShape = "emptyArray")

TypeErrorMessage(product) ==
    IF product.parse = "null"
    THEN "Cannot read properties of null (reading '@type')"
    ELSE "Cannot read properties of undefined (reading 'price')"

\* product.brand?.name || product.manufacturer
LdBrand(product) ==
    OrString(IF product.brandShape = "object" THEN product.brandName ELSE Undefined,
             product.manufacturer)

\* offer.price ? parseFloat(offer.price) : undefined
LdPrice(product) ==
    IF product.price # <<>> THEN ParseFloat(product.price) ELSE UndefinedNumber

\* typeof img === 'string' ? img : img?.url, img the image or its first item
LdImage(product) ==
    IF product.imageShape = "emptyArray" THEN Undefined ELSE product.image

\* the body of the loop over jsonLd for a block that does not throw
MergeProduct(data, product) ==
    IF ~IsProduct(product) THEN data
    ELSE LET withOffer ==
                 IF product.offersShape = "absent" THEN data
                 ELSE [data EXCEPT
                         !.price = OrNumber(data.price, LdPrice(product)),
                         !.currency = OrString(data.currency, product.priceCurrency)]
             withImage ==
                 IF product.imageShape = "absent" THEN withOffer
                 ELSE [withOffer EXCEPT
                         !.imageUrl = OrString(withOffer.imageUrl, LdImage(product))]
         IN  [withImage EXCEPT
                !.name = OrString(data.name, StringOrUndefined(product.name)),
                !.brand = LdBrand(product),
                !.description =
                    OrString(data.description, StringOrUndefined(product.description))]

\* urlParts[urlParts.length - 2] of new URL(url).hostname.split('.')
BrandFromUrl(href) ==
    LET urlParts == UrlEntry(href).hostname
    IN  IF Len(urlParts) >= 2 THEN urlParts[Len(urlParts) - 1] ELSE Undefined

InferBrand(data, href) ==
    IF TruthyString(data.brand) THEN data
    ELSE [data EXCEPT !.brand = BrandFromUrl(href)]

\* a variant that declares shoes first
categoryPatternsShoesFirst ==
    << [category |-> "shoes", words |-> ShoesWords],
       [category |-> "shirt", words |-> ShirtWords],
       [category |-> "pants", words |-> PantsWords],
       [category |-> "dress", words |-> DressWords],
       [category |-> "jacket", words |-> JacketWords] >>

categoryPatterns ==
    << [category |-> "shirt", words |-> ShirtWords],
       [category |-> "pants", words |-> PantsWords],
       [category |-> "dress", words |-> DressWords],
       [category |-> "shoes", words |-> ShoesWords],
       [category |-> "jacket", words |-> JacketWords] >>

\* pattern.test(url) || pattern.test(html)
PatternTest(words, href, str) ==
    \/ UrlEntry(href).words \cap words # {}
    \/ \E i \in DOMAIN str : str[i] \in words

RECURSIVE DetectCategoryFrom(_, _, _)
DetectCategoryFrom(href, str, idx) ==
    IF idx > Len(categoryPatterns) THEN Undefined
    ELSE IF PatternTest(categoryPatterns[idx].words, href, str)
         THEN categoryPatterns[idx].category
         ELSE DetectCategoryFrom(href, str, idx + 1)

DetectCategory(data, href, str) ==
    [data EXCEPT !.category = DetectCategoryFrom(href, str, 1)]

----------------------------------------------------------------------------
(* scrapeSizeChart: the tables of a size-guide page *)

(* A size-guide page is a sequence of <table> blocks.  A table holds the    *)
(* texts of its <th> cells in order, its <tr> rows in order, each the       *)
(* trimmed texts of its <td> cells as characters, and the words of any      *)
(* other text in it (a caption).                                            *)
Table(words, headers, rows) == [words |-> words, headers |-> headers, rows |-> rows]

\* String.prototype.toLowerCase on a header
ToLowerCase(str) ==
    CASE str = "Size" -> "size"
      [] str = "Chest" -> "chest"
      [] str = "Waist" -> "waist"
      [] str = "LENGTH" -> "length"
      [] str = "Colour" -> "colour"
      [] OTHER -> str

SizingWords == {"size", "chest", "waist", "length"}

\* a variant that skips no table
HasSizingWordAlways(table) == TRUE

\* /size|chest|waist|length/i.test(tableHtml)
HasSizingWord(table) ==
    \/ \E w \in table.words : ToLowerCase(w) \in SizingWords
    \/ \E i \in DOMAIN table.headers : ToLowerCase(table.headers[i]) \in SizingWords

LetterSizes ==
    { <<"M">>, <<"m">>, <<"L">>, <<"S">>, <<"X", "S">>, <<"X", "L">>,
      <<"X", "X", "S">>, <<"X", "X", "L">>, <<"X", "X", "X", "L">> }

\* /^(XXS|XS|S|M|L|XL|XXL|XXXL|\d+)$/i.test(size)
IsSizeLabel(cell) ==
    \/ cell \in LetterSizes
    \/ (cell # <<>> /\ \A i \in DOMAIN cell : cell[i] \in Digits)

EmptyRecord == [k \in {} |-> Zero]

EmptyChart == [k \in {} |-> EmptyRecord]

\* obj[key] = value
Put(obj, key, value) ==
    [k \in DOMAIN obj \cup {key} |-> IF k = key THEN value ELSE obj[k]]

Min(a, b) == IF a < b THEN a ELSE b

\* the loop over i from 1 below Math.min(cells.length, headers.length); the
\* model counts positions from 1, so i here is the code's i + 1
RECURSIVE Measurements(_, _, _, _)
Measurements(entry, cells, headers, i) ==
    IF i > Min(Len(cells), Len(headers)) THEN entry
    ELSE LET measurement == ParseFloat(cells[i])
         IN  Measurements(IF IsNaN(measurement) THEN entry
                          ELSE Put(entry, ToLowerCase(headers[i]), measurement),
                          cells, headers, i + 1)

\* a piece of a cell's content that is markup, not text
Markup == {"<b>", "</b>"}

\* String.prototype.trim
RECURSIVE Trim(_)
Trim(str) ==
    IF str # <<>> /\ Head(str) \in Whitespace THEN Trim(Tail(str))
    ELSE IF str # <<>> /\ str[Len(str)] \in Whitespace
         THEN Trim(SubSeq(str, 1, Len(str) - 1))
         ELSE str

\* /<td[^>]*>([^<]+)<\/td>/gi matches a cell whose content is not empty and
\* holds no markup
CellMatches(cell) == cell # <<>> /\ \A i \in DOMAIN cell : cell[i] \notin Markup

\* the cells array of one row: the trimmed content of each matched <td>
RECURSIVE Cells(_)
Cells(row) ==
    IF row = <<>> THEN <<>>
    ELSE IF CellMatches(Head(row)) THEN <<Trim(Head(row))>> \o Cells(Tail(row))
         ELSE Cells(Tail(row))

\* a variant that keeps the measurements an earlier row stored for the label
KeptEntry(chart, size) == IF size \in DOMAIN chart THEN chart[size] ELSE EmptyRecord

\* sizeChart[size] = {}
NewEntry(chart, size) == EmptyRecord

\* the body of the loop over the rows of one table
AddRow(chart, row, headers) ==
    LET cells == Cells(row)
    IN  IF cells # <<>> /\ IsSizeLabel(cells[1])
        THEN Put(chart, cells[1],
                 Measurements(NewEntry(chart, cells[1]), cells, headers, 2))
        ELSE chart

RECURSIVE AddRows(_, _, _)
AddRows(chart, rows, headers) ==
    IF rows = <<>> THEN chart
    ELSE AddRows(AddRow(chart, Head(rows), headers), Tail(rows), headers)

\* one pass of the loop over the tables, up to the test that ends it
ParseTable(chart, table) ==
    IF ~HasSizingWord(table) THEN chart
    ELSE AddRows(chart, table.rows, table.headers)

----------------------------------------------------------------------------
(* The calls *)

Urls == {UrlTable[i].href : i \in DOMAIN UrlTable}

\* what axios.get rejects with: no connection, the timeout of 10000 ms, a
\* status outside 2xx
FetchFailures ==
    {"Network Error", "timeout of 10000ms exceeded", "Request failed with status code 404"}

NoResponse == [status |-> "none", cause |-> "", isString |-> TRUE, html |-> <<>>]

Failed(cause) == [NoResponse EXCEPT !.status = "failed", !.cause = cause]

\* response.data is the page; for a JSON response axios hands over the parsed
\* value, which is no string
Page(html) == [NoResponse EXCEPT !.status = "ok", !.html = html]

NotAString == [NoResponse EXCEPT !.status = "ok", !.isString = FALSE]

Pending == [kind |-> "pending", value |-> NoProductData, chart |-> EmptyChart, message |-> <<>>]

Resolved(value) == [Pending EXCEPT !.kind = "resolved", !.value = value]

ResolvedChart(chart) == [Pending EXCEPT !.kind = "resolved", !.chart = chart]

ScrapeErrorPrefix == "Failed to scrape product page: "

\* the catch block of scrapeProductPage: throw new Error(prefix + message)
RejectedUnwrapped(message) ==
    [Pending EXCEPT !.kind = "rejected", !.message = <<message>>]

Rejected(message) ==
    [Pending EXCEPT !.kind = "rejected", !.message = <<ScrapeErrorPrefix, message>>]

\* a variant of the catch block that hands the error on
ChartRethrown(cause) ==
    [Pending EXCEPT !.kind = "rejected", !.message = <<cause>>]

\* the catch block of scrapeSizeChart: return {}
ChartCaught(cause) == ResolvedChart(EmptyChart)

ScrapeIdle ==
    /\ pc = [c \in CallIds |-> "idle"]
    /\ url = [c \in CallIds |-> ""]
    /\ requests = [c \in CallIds |-> 0]
    /\ response = [c \in CallIds |-> NoResponse]
    /\ productData = [c \in CallIds |-> NoProductData]
    /\ jsonLd = [c \in CallIds |-> <<>>]
    /\ ldIdx = [c \in CallIds |-> 0]
    /\ sizeChart = [c \in CallIds |-> EmptyChart]
    /\ tableIdx = [c \in CallIds |-> 0]
    /\ result = [c \in CallIds |-> Pending]

\* the promise a call returned is settled
Settled(c) == pc[c] \in {"resolved", "rejected"}

\* scrapeProductPage(u) is called: axios.get is issued and awaited
CallScrapeProductPage(c, u) ==
    /\ pc[c] = "idle"
    /\ url' = [url EXCEPT ![c] = u]
    /\ requests' = [requests EXCEPT ![c] = @ + 1]
    /\ pc' = [pc EXCEPT ![c] = "get"]
    /\ UNCHANGED <<response, productData, jsonLd, ldIdx, sizeChart, tableIdx, result>>

\* a variant that sends the request once more before it gives up
CatchGetFailureRetryOnce(c, cause) ==
    IF requests[c] < 2
    THEN /\ requests' = [requests EXCEPT ![c] = @ + 1]
         /\ UNCHANGED <<pc, result>>
    ELSE /\ result' = [result EXCEPT ![c] = Rejected(cause)]
         /\ pc' = [pc EXCEPT ![c] = "rejected"]
         /\ UNCHANGED requests

\* the catch block after a failed request: no request is sent again
CatchGetFailure(c, cause) ==
    /\ result' = [result EXCEPT ![c] = Rejected(cause)]
    /\ pc' = [pc EXCEPT ![c] = "rejected"]
    /\ UNCHANGED requests

\* the request fails; the catch block rejects the call
GetFails(c) ==
    /\ pc[c] = "get"
    /\ \E cause \in FetchFailures :
          /\ response' = [response EXCEPT ![c] = Failed(cause)]
          /\ CatchGetFailure(c, cause)
    /\ UNCHANGED <<url, productData, jsonLd, ldIdx, sizeChart, tableIdx>>

\* the request succeeds with one of the bodies
GetResponds(c, bodies) ==
    /\ pc[c] = "get"
    /\ \E body \in bodies : response' = [response EXCEPT ![c] = body]
    /\ pc' = [pc EXCEPT ![c] = "extract"]
    /\ UNCHANGED <<url, requests, productData, jsonLd, ldIdx, sizeChart, tableIdx, result>>

\* the five extractors and the object literal; html.match throws for a body
\* that is no string
Extract(c) ==
    /\ pc[c] = "extract"
    /\ IF response[c].isString
       THEN LET html == response[c].html
            IN  /\ productData' =
                      [productData EXCEPT ![c] =
                          BuildProductData(extractMetaTags(html),
                                           extractImages(html, url[c]),
                                           extractSizes(PageText(html)),
                                           extractPrice(PageText(html)))]
                /\ jsonLd' = [jsonLd EXCEPT ![c] = extractJsonLd(html)]
                /\ ldIdx' = [ldIdx EXCEPT ![c] = 1]
                /\ pc' = [pc EXCEPT ![c] = "jsonld"]
                /\ UNCHANGED result
       ELSE /\ result' = [result EXCEPT ![c] = Rejected("html.match is not a function")]
            /\ pc' = [pc EXCEPT ![c] = "rejected"]
            /\ UNCHANGED <<productData, jsonLd, ldIdx>>
    /\ UNCHANGED <<url, requests, response, sizeChart, tableIdx>>

\* one pass of the loop over jsonLd
JsonLdBlock(c) ==
    /\ pc[c] = "jsonld"
    /\ ldIdx[c] <= Len(jsonLd[c])
    /\ LET product == jsonLd[c][ldIdx[c]]
       IN  IF Throws(product)
           THEN /\ result' = [result EXCEPT ![c] = Rejected(TypeErrorMessage(product))]
                /\ pc' = [pc EXCEPT ![c] = "rejected"]
                /\ UNCHANGED <<productData, ldIdx>>
           ELSE /\ productData' =
                      [productData EXCEPT ![c] = MergeProduct(productData[c], product)]
                /\ ldIdx' = [ldIdx EXCEPT ![c] = @ + 1]
                /\ UNCHANGED <<pc, result>>
    /\ UNCHANGED <<url, requests, response, jsonLd, sizeChart, tableIdx>>

\* after the loop: the brand from the URL, the category, and the return
ReturnProductData(c) ==
    /\ pc[c] = "jsonld"
    /\ ldIdx[c] > Len(jsonLd[c])
    /\ LET data == DetectCategory(InferBrand(productData[c], url[c]), url[c],
                                  PageText(response[c].html))
       IN  /\ productData' = [productData EXCEPT ![c] = data]
           /\ result' = [result EXCEPT ![c] = Resolved(data)]
    /\ pc' = [pc EXCEPT ![c] = "resolved"]
    /\ UNCHANGED <<url, requests, response, jsonLd, ldIdx, sizeChart, tableIdx>>

\* scrapeSizeChart(u) is called
CallScrapeSizeChart(c, u) ==
    /\ pc[c] = "idle"
    /\ url' = [url EXCEPT ![c] = u]
    /\ requests' = [requests EXCEPT ![c] = @ + 1]
    /\ pc' = [pc EXCEPT ![c] = "getChart"]
    /\ UNCHANGED <<response, productData, jsonLd, ldIdx, sizeChart, tableIdx, result>>

\* the request fails; the catch block returns {}
ChartGetFails(c) ==
    /\ pc[c] = "getChart"
    /\ \E cause \in FetchFailures :
          /\ response' = [response EXCEPT ![c] = Failed(cause)]
          /\ result' = [result EXCEPT ![c] = ChartCaught(cause)]
    /\ pc' = [pc EXCEPT ![c] = "resolved"]
    /\ UNCHANGED <<url, requests, productData, jsonLd, ldIdx, sizeChart, tableIdx>>

\* the request succeeds; a body that is no string holds no table
ChartGetResponds(c, bodies) ==
    /\ pc[c] = "getChart"
    /\ \E body \in bodies : response' = [response EXCEPT ![c] = body]
    /\ sizeChart' = [sizeChart EXCEPT ![c] = EmptyChart]
    /\ tableIdx' = [tableIdx EXCEPT ![c] = 1]
    /\ pc' = [pc EXCEPT ![c] = "tables"]
    /\ UNCHANGED <<url, requests, productData, jsonLd, ldIdx, result>>

\* a variant that never ends the loop early
BreaksNever(chart) == FALSE

\* if (Object.keys(sizeChart).length > 0) break
Breaks(chart) == DOMAIN chart # {}

\* one pass of the loop over the tables; a table without a sizing word is
\* skipped (continue), and the loop ends (break) once the chart holds an entry
ChartTable(c) ==
    /\ pc[c] = "tables"
    /\ tableIdx[c] <= Len(response[c].html)
    /\ LET chart == ParseTable(sizeChart[c], response[c].html[tableIdx[c]])
       IN  /\ sizeChart' = [sizeChart EXCEPT ![c] = chart]
           /\ IF HasSizingWord(response[c].html[tableIdx[c]]) /\ Breaks(chart)
              THEN pc' = [pc EXCEPT ![c] = "return"]
              ELSE pc' = pc
    /\ tableIdx' = [tableIdx EXCEPT ![c] = @ + 1]
    /\ UNCHANGED <<url, requests, response, productData, jsonLd, ldIdx, result>>

\* return sizeChart, after a break or when no table is left
ReturnSizeChart(c) ==
    /\ \/ pc[c] = "return"
       \/ (pc[c] = "tables" /\ tableIdx[c] > Len(response[c].html))
    /\ result' = [result EXCEPT ![c] = ResolvedChart(sizeChart[c])]
    /\ pc' = [pc EXCEPT ![c] = "resolved"]
    /\ UNCHANGED <<url, requests, response, productData, jsonLd, ldIdx, sizeChart,
                   tableIdx>>

----------------------------------------------------------------------------
(* getSizeChartUrl *)

Null == "null"

\* the characters of the brands that occur
BrandChars(brand) ==
    CASE brand = "nike" -> <<"n", "i", "k", "e">>
      [] brand = "H&M" -> <<"H", "&", "M">>
      [] brand = "co" -> <<"c", "o">>
      [] brand = "com" -> <<"c", "o", "m">>
      [] brand = "Nike" -> <<"N", "i", "k", "e">>
      [] brand = "NIKE" -> <<"N", "I", "K", "E">>
      [] brand = "nike1" -> <<"n", "i", "k", "e", "1">>
      [] brand = "adidas" -> <<"a", "d", "i", "d", "a", "s">>
      [] brand = "Adidas Originals" ->
             <<"A", "d", "i", "d", "a", "s", " ", "O", "r", "i", "g", "i", "n", "a", "l", "s">>
      [] brand = "ZARA" -> <<"Z", "A", "R", "A">>
      [] brand = "hm" -> <<"h", "m">>
      [] brand = "h.m" -> <<"h", ".", "m">>
      [] brand = "Uniqlo" -> <<"U", "n", "i", "q", "l", "o">>
      [] brand = "Gap" -> <<"G", "a", "p">>
      [] brand = "Gap 1969" -> <<"G", "a", "p", " ", "1", "9", "6", "9">>
      [] brand = "All Saints" -> <<"A", "l", "l", " ", "S", "a", "i", "n", "t", "s">>
      [] brand = "all-saints" -> <<"a", "l", "l", "-", "s", "a", "i", "n", "t", "s">>
      [] brand = "Levi's" -> <<"L", "e", "v", "i", "'", "s">>
      [] brand = "4" -> <<"4">>
      [] brand = "example" -> <<"e", "x", "a", "m", "p", "l", "e">>
      [] brand = "ga p" -> <<"g", "a", " ", "p">>

UpperCase ==
    <<"A", "B", "C", "D", "E", "F", "G", "H", "I", "J", "K", "L", "M", "N", "O", "P",
      "Q", "R", "S", "T", "U", "V", "W", "X", "Y", "Z">>

LowerCase ==
    <<"a", "b", "c", "d", "e", "f", "g", "h", "i", "j", "k", "l", "m", "n", "o", "p",
      "q", "r", "s", "t", "u", "v", "w", "x", "y", "z">>

LowerChar(ch) ==
    IF \E i \in DOMAIN UpperCase : UpperCase[i] = ch
    THEN LowerCase[CHOOSE i \in DOMAIN UpperCase : UpperCase[i] = ch]
    ELSE ch

LowerCaseLetters == {LowerCase[i] : i \in DOMAIN LowerCase}

\* .toLowerCase().replace(/[^a-z]/g, '')
RECURSIVE KeepLetters(_)
KeepLetters(str) ==
    IF str = <<>> THEN <<>>
    ELSE (IF LowerChar(Head(str)) \in LowerCaseLetters
          THEN <<LowerChar(Head(str))>> ELSE <<>>) \o KeepLetters(Tail(str))

sizeCharts ==
    [k \in { <<"n", "i", "k", "e">>, <<"a", "d", "i", "d", "a", "s">>,
             <<"z", "a", "r", "a">>, <<"h", "m">>,
             <<"u", "n", "i", "q", "l", "o">>, <<"g", "a", "p">>,
             <<"a", "l", "l", "s", "a", "i", "n", "t", "s">> } |->
        CASE k = <<"n", "i", "k", "e">> -> "https://www.nike.com/size-fit-guide"
          [] k = <<"a", "d", "i", "d", "a", "s">> -> "https://www.adidas.com/us/help/size_guide"
          [] k = <<"z", "a", "r", "a">> -> "https://www.zara.com/us/en/help/size-guide"
          [] k = <<"h", "m">> -> "https://www2.hm.com/en_us/customer-service/size-guide.html"
          [] k = <<"u", "n", "i", "q", "l", "o">> -> "https://www.uniqlo.com/us/en/size-guide"
          [] k = <<"g", "a", "p">> -> "https://www.gap.com/browse/sizeChart.do"
          [] OTHER -> "https://www.allsaints.com/size-guide/"]

\* the category argument is not read
getSizeChartUrl(brand, category) ==
    LET brandKey == KeepLetters(BrandChars(brand))
    IN  IF brandKey \in DOMAIN sizeCharts THEN sizeCharts[brandKey] ELSE Null

BrandNames ==
    {"nike", "H&M", "co", "Nike", "NIKE", "nike1", "adidas", "Adidas Originals",
     "ZARA", "hm", "h.m", "Uniqlo", "Gap", "Gap 1969", "All Saints", "all-saints",
     "Levi's", "4", "example", "ga p"}

Categories == {Undefined, "shirt", "shoes"}

GuideIdle ==
    /\ guideBrand = ""
    /\ guideCategory = Undefined
    /\ guidePc = "idle"
    /\ guideUrl = Null

GuideInit ==
    /\ guideBrand \in BrandNames
    /\ guideCategory \in Categories
    /\ guidePc = "call"
    /\ guideUrl = Null

\* getSizeChartUrl(brand, category) runs and returns
GuideLookup ==
    /\ guidePc = "call"
    /\ guideUrl' = getSizeChartUrl(guideBrand, guideCategory)
    /\ guidePc' = "done"
    /\ UNCHANGED <<guideBrand, guideCategory>>
    /\ UNCHANGED notGuide

----------------------------------------------------------------------------
(* The import-url handler *)

NoSession == ""

Sessions == {NoSession, "user-1"}

\* the body of the request: no JSON, or an object whose url is absent, a
\* string, or a value that is no string
RequestUrls == Urls \cup {Undefined, "", "ftp://files.example.com/a.zip", NonString}

NoBody == [parse |-> "none", url |-> Undefined]

RequestBodies ==
    {[parse |-> "error", url |-> Undefined]} \cup
    {[parse |-> "ok", url |-> u] : u \in RequestUrls}

\* what extractClothingMeasurements resolves with: {} when the answer is no
\* JSON, else the parsed answer
NoMeasurements == [size |-> Undefined, fit |-> Undefined]

MeasurementResults == {NoMeasurements, [size |-> "M", fit |-> "regular"]}

\* let sizingData = {}
NoSizingData ==
    [hasSizeChart |-> FALSE, sizeChart |-> EmptyChart, size |-> Undefined,
     fit |-> Undefined]

\* sizingData = { ...sizingData, ...measurements }
Spread(data, measurements) ==
    [data EXCEPT !.size = measurements.size, !.fit = measurements.fit]

NoItem ==
    [userId |-> NoSession, name |-> Undefined, category |-> Undefined,
     brand |-> Undefined, sourceUrl |-> Undefined, imageUrl |-> Undefined,
     price |-> UndefinedNumber, currency |-> Undefined,
     sizingData |-> NoSizingData, description |-> Undefined, sizes |-> <<>>]

\* the data of prisma.clothingItem.create
NewItem(user, data, href, sizing) ==
    [userId |-> user,
     name |-> OrString(data.name, "Imported Item"),
     category |-> OrString(data.category, "other"),
     brand |-> data.brand, sourceUrl |-> href, imageUrl |-> data.imageUrl,
     price |-> data.price, currency |-> data.currency, sizingData |-> sizing,
     description |-> data.description, sizes |-> data.sizes]

NoReply ==
    [status |-> 0, error |-> "", details |-> <<>>, success |-> FALSE,
     item |-> NoItem, productData |-> NoProductData, sizingData |-> NoSizingData]

ErrorReply(status, error) == [NoReply EXCEPT !.status = status, !.error = error]

\* the outer catch block: status 500 with the message of the error
Caught(message) ==
    [NoReply EXCEPT !.status = 500, !.error = "Failed to import from URL",
                    !.details = message]

SuccessReply(item, data, sizing) ==
    [NoReply EXCEPT !.status = 200, !.success = TRUE, !.item = item,
                    !.productData = data, !.sizingData = sizing]

DatabaseError == <<"Can't reach database server">>

ImportIdle ==
    /\ importPc = "idle"
    /\ session = NoSession
    /\ requestBody = NoBody
    /\ sizingData = NoSizingData
    /\ clothingItems = <<>>
    /\ reply = NoReply

\* a request arrives
ImportInit ==
    /\ importPc = "session"
    /\ session \in Sessions
    /\ requestBody \in RequestBodies
    /\ sizingData = NoSizingData
    /\ clothingItems = <<>>
    /\ reply = NoReply

Respond(r) ==
    /\ reply' = r
    /\ importPc' = "done"

\* getServerSession and the check of the user id
CheckSession ==
    /\ importPc = "session"
    /\ IF session = NoSession
       THEN Respond(ErrorReply(401, "Unauthorized"))
       ELSE importPc' = "body" /\ UNCHANGED reply
    /\ UNCHANGED <<session, requestBody, sizingData, clothingItems, scrapeVars>>

\* req.json(), the check of url, and the call of scrapeProductPage
ReadBody ==
    /\ importPc = "body"
    /\ IF requestBody.parse = "error"
       THEN Respond(Caught(<<"Unexpected end of JSON input">>)) /\ UNCHANGED scrapeVars
       ELSE IF ~TruthyString(requestBody.url)
       THEN Respond(ErrorReply(400, "Invalid URL provided")) /\ UNCHANGED scrapeVars
       ELSE IF requestBody.url = NonString
       THEN Respond(Caught(<<"url.startsWith is not a function">>))
            /\ UNCHANGED scrapeVars
       ELSE IF ~StartsWithHttp(requestBody.url)
       THEN Respond(ErrorReply(400, "Invalid URL provided")) /\ UNCHANGED scrapeVars
       ELSE /\ CallScrapeProductPage("p1", requestBody.url)
            /\ importPc' = "scrape"
            /\ UNCHANGED reply
    /\ UNCHANGED <<session, requestBody, sizingData, clothingItems>>

\* a variant that takes every scraped record
HasImageUrlAlways(data) == TRUE

\* productData.imageUrl is set
HasImageUrl(data) == TruthyString(data.imageUrl)

\* scrapeProductPage has settled: the check of imageUrl, getSizeChartUrl and
\* the call of scrapeSizeChart
AfterScrape ==
    /\ importPc = "scrape"
    /\ Settled("p1")
    /\ LET data == result["p1"].value
       IN  IF result["p1"].kind = "rejected"
           THEN Respond(Caught(result["p1"].message)) /\ UNCHANGED scrapeVars
           ELSE IF ~HasImageUrl(data)
           THEN /\ Respond(ErrorReply(400, "Could not extract product image from URL"))
                /\ UNCHANGED scrapeVars
           ELSE IF ~TruthyString(data.brand)
           THEN importPc' = "measure" /\ UNCHANGED <<reply, scrapeVars>>
           ELSE IF data.brand = NonString
           THEN /\ Respond(Caught(<<"brand.toLowerCase is not a function">>))
                /\ UNCHANGED scrapeVars
           ELSE IF getSizeChartUrl(data.brand, data.category) = Null
           THEN importPc' = "measure" /\ UNCHANGED <<reply, scrapeVars>>
           ELSE /\ CallScrapeSizeChart("s1", getSizeChartUrl(data.brand, data.category))
                /\ importPc' = "chart"
                /\ UNCHANGED reply
    /\ UNCHANGED <<session, requestBody, sizingData, clothingItems>>

\* scrapeSizeChart has settled: a chart with an entry goes into sizingData
AfterChart ==
    /\ importPc = "chart"
    /\ Settled("s1")
    /\ IF result["s1"].kind = "rejected"
       THEN Respond(Caught(result["s1"].message)) /\ UNCHANGED sizingData
       ELSE /\ sizingData' =
                  IF DOMAIN result["s1"].chart # {}
                  THEN [NoSizingData EXCEPT !.hasSizeChart = TRUE,
                                            !.sizeChart = result["s1"].chart]
                  ELSE NoSizingData
            /\ importPc' = "measure"
            /\ UNCHANGED reply
    /\ UNCHANGED <<session, requestBody, clothingItems, scrapeVars>>

\* the try block around fetch and extractClothingMeasurements; an error in it
\* is logged and leaves sizingData as it is
Measure ==
    /\ importPc = "measure"
    /\ \/ \E measurements \in MeasurementResults :
              sizingData' = Spread(sizingData, measurements)
       \/ UNCHANGED sizingData
    /\ importPc' = "save"
    /\ UNCHANGED <<session, requestBody, clothingItems, reply, scrapeVars>>

\* prisma.clothingItem.create and the response; an error of the database
\* goes to the outer catch block
Save ==
    /\ importPc = "save"
    /\ LET item == NewItem(session, result["p1"].value, requestBody.url, sizingData)
       IN  \/ /\ clothingItems' = Append(clothingItems, item)
              /\ Respond(SuccessReply(item, result["p1"].value, sizingData))
           \/ /\ Respond(Caught(DatabaseError))
              /\ UNCHANGED clothingItems
    /\ UNCHANGED <<session, requestBody, sizingData, scrapeVars>>

----------------------------------------------------------------------------
(* The try-on route *)

\* the form of the request: no form data, or fields that are present or not
NoForm ==
    [parse |-> "none", userImage |-> FALSE, clothingImage |-> FALSE,
     clothingItemId |-> Undefined, baselineImageUrl |-> Undefined,
     backgroundPreference |-> Undefined]

TryForms ==
    {[NoForm EXCEPT !.parse = "error"]} \cup
    {[parse |-> "ok", userImage |-> u, clothingImage |-> c, clothingItemId |-> i,
      baselineImageUrl |-> b, backgroundPreference |-> g] :
        u \in BOOLEAN, c \in BOOLEAN, i \in {Undefined, "item-1"},
        b \in {Undefined, "https://cdn.example/a.jpg"}, g \in {Undefined, "studio"}}

\* what generateVirtualTryOn settles with: a data URL, or an error
NoImage == [status |-> "none", url |-> Undefined, message |-> <<>>]

GeneratedImages == {[NoImage EXCEPT !.status = "ok", !.url = "data:image/png;base64,AAAA"]}

GenerationFailures ==
    {[NoImage EXCEPT !.status = "failed", !.message = <<m>>] :
        m \in {"Request blocked: SAFETY. ", "No image generated for virtual try-on"}}

NoTryReply ==
    [status |-> 0, error |-> "", details |-> <<>>, success |-> FALSE,
     imageUrl |-> Undefined]

TryErrorReply(status, error) == [NoTryReply EXCEPT !.status = status, !.error = error]

\* the catch block: status 500 with the message of the error
TryCaught(message) ==
    [NoTryReply EXCEPT !.status = 500, !.error = "Failed to generate virtual try-on",
                       !.details = message]

TrySuccessReply(image) ==
    [NoTryReply EXCEPT !.status = 200, !.success = TRUE, !.imageUrl = image]

\* the data of prisma.tryOnHistory.create
HistoryRow(user, form, image) ==
    [userId |-> user, clothingItemId |-> form.clothingItemId,
     baselineImageUrl |-> OrString(form.baselineImageUrl, ""),
     resultImageUrl |-> image,
     background |-> OrString(form.backgroundPreference, "neutral")]

\* a variant with the check of the session in force
UnauthorizedWithoutUser(user) == user = NoSession

\* the check of the session is commented out: no request is turned away
Unauthorized(user) == FALSE

\* clothingItemId && session?.user?.id
SavesHistory(user, form) == TruthyString(form.clothingItemId) /\ user # NoSession

TryIdle ==
    /\ tryPc = "idle"
    /\ trySession = NoSession
    /\ tryForm = NoForm
    /\ tryImage = NoImage
    /\ tryHistory = <<>>
    /\ tryReply = NoTryReply

\* a request arrives
TryInit ==
    /\ tryPc = "form"
    /\ trySession \in Sessions
    /\ tryForm \in TryForms
    /\ tryImage = NoImage
    /\ tryHistory = <<>>
    /\ tryReply = NoTryReply

TryRespond(r) ==
    /\ tryReply' = r
    /\ tryPc' = "done"

\* a variant that looks at the user image alone
MissingImageOfUser(form) == ~form.userImage

\* !userImage || !clothingImage
MissingImage(form) == ~form.userImage \/ ~form.clothingImage

\* getServerSession, req.formData() and the check of the two images
TryReadForm ==
    /\ tryPc = "form"
    /\ IF Unauthorized(trySession)
       THEN TryRespond(TryErrorReply(401, "Unauthorized"))
       ELSE IF tryForm.parse = "error"
       THEN TryRespond(TryCaught(<<"Failed to parse body as FormData.">>))
       ELSE IF MissingImage(tryForm)
       THEN TryRespond(TryErrorReply(400, "Both user and clothing images are required"))
       ELSE tryPc' = "generate" /\ UNCHANGED tryReply
    /\ UNCHANGED <<trySession, tryForm, tryImage, tryHistory>>
    /\ UNCHANGED notTry

\* the images are read (arrayBuffer throws for a field that is no file, and
\* the catch block answers) and generateVirtualTryOn settles; without a row
\* to write the handler answers
TryGenerate ==
    /\ tryPc = "generate"
    /\ \/ /\ TryRespond(TryCaught(<<"userImage.arrayBuffer is not a function">>))
          /\ UNCHANGED tryImage
       \/ \E image \in GeneratedImages \cup GenerationFailures :
             /\ tryImage' = image
             /\ IF image.status = "failed"
                THEN TryRespond(TryCaught(image.message))
                ELSE IF SavesHistory(trySession, tryForm)
                THEN tryPc' = "history" /\ UNCHANGED tryReply
                ELSE TryRespond(TrySuccessReply(image.url))
    /\ UNCHANGED <<trySession, tryForm, tryHistory>>
    /\ UNCHANGED notTry

\* prisma.tryOnHistory.create and the response; an error of the database goes
\* to the catch block
TrySaveHistory ==
    /\ tryPc = "history"
    /\ \/ /\ tryHistory' = Append(tryHistory, HistoryRow(trySession, tryForm, tryImage.url))
          /\ TryRespond(TrySuccessReply(tryImage.url))
       \/ /\ TryRespond(TryCaught(DatabaseError))
          /\ UNCHANGED tryHistory
    /\ UNCHANGED <<trySession, tryForm, tryImage>>
    /\ UNCHANGED notTry

----------------------------------------------------------------------------
(* handleApiResponse *)

\* a part of a candidate's content: text, or inlineData { mimeType, data }
TextPart == [inline |-> FALSE, mimeType |-> Undefined, data |-> Undefined]

InlinePart(mimeType, data) == [inline |-> TRUE, mimeType |-> mimeType, data |-> data]

Candidate(parts, finishReason) == [parts |-> parts, finishReason |-> finishReason]

NoApiResponse ==
    [blockReason |-> Undefined, blockReasonMessage |-> Undefined, candidates |-> <<>>]

NoApiResult == [kind |-> "none", value |-> ""]

Returned(value) == [kind |-> "returned", value |-> value]

Thrown(message) == [kind |-> "thrown", value |-> message]

\* a variant that never sees a block reason
BlockedNever(resp) == FALSE

\* response.promptFeedback?.blockReason is set
Blocked(resp) == TruthyString(resp.blockReason)

\* parts.find(part => 'inlineData' in part && part.inlineData); NoPart when
\* find returns undefined
NoPart == [inline |-> FALSE, mimeType |-> "", data |-> ""]

RECURSIVE Find(_)
Find(parts) ==
    IF parts = <<>> THEN NoPart
    ELSE IF Head(parts).inline THEN Head(parts) ELSE Find(Tail(parts))

\* response.candidates?.[0]?.content?.parts?.find(...)
ImagePart(resp) ==
    IF resp.candidates = <<>> THEN NoPart ELSE Find(resp.candidates[1].parts)

\* response.candidates?.[0]?.finishReason
FinishReason(resp) ==
    IF resp.candidates = <<>> THEN Undefined ELSE resp.candidates[1].finishReason

handleApiResponse(resp, context) ==
    IF Blocked(resp)
    THEN Thrown("Request blocked: " \o resp.blockReason \o ". "
                \o OrString(resp.blockReasonMessage, ""))
    ELSE IF ImagePart(resp) # NoPart
    THEN Returned("data:" \o ImagePart(resp).mimeType \o ";base64,"
                  \o ImagePart(resp).data)
    ELSE IF TruthyString(FinishReason(resp)) /\ FinishReason(resp) # "STOP"
    THEN Thrown("Generation stopped for " \o context \o ": " \o FinishReason(resp))
    ELSE Thrown("No image generated for " \o context)

ApiIdle ==
    /\ apiResponse = NoApiResponse
    /\ apiContext = ""
    /\ apiPc = "idle"
    /\ apiResult = NoApiResult

MaxParts == 2

ApiParts == {TextPart, InlinePart("image/png", "iVBOR"), InlinePart("image/jpeg", "AAAA")}

ApiPartLists == UNION {[1..n -> ApiParts] : n \in 0..MaxParts}

ApiCandidates ==
    {Candidate(parts, reason) :
        parts \in ApiPartLists, reason \in {Undefined, "STOP", "MAX_TOKENS"}}

\* no candidate, one candidate, or a second candidate that holds an image
ApiCandidateLists ==
    {<<>>} \cup {<<c>> : c \in ApiCandidates}
    \cup {<<c, Candidate(<<InlinePart("image/png", "iVBOR")>>, "STOP")>> :
             c \in ApiCandidates}

ApiResponses ==
    {[blockReason |-> b[1], blockReasonMessage |-> b[2], candidates |-> cs] :
        b \in {<<Undefined, Undefined>>, <<"SAFETY", Undefined>>,
               <<"SAFETY", "Unsafe prompt">>},
        cs \in ApiCandidateLists}

\* the three callers: generateVirtualTryOn, applyFilter, editImage
ApiContexts == {"virtual try-on", "filter", "edit"}

ApiInit ==
    /\ apiResponse \in ApiResponses
    /\ apiContext \in ApiContexts
    /\ apiPc = "call"
    /\ apiResult = NoApiResult

\* handleApiResponse(response, context) runs and returns or throws
ApiHandle ==
    /\ apiPc = "call"
    /\ apiResult' = handleApiResponse(apiResponse, apiContext)
    /\ apiPc' = "done"
    /\ UNCHANGED <<apiResponse, apiContext>>
    /\ UNCHANGED notApi

----------------------------------------------------------------------------
(* The VirtualTryOn component *)

\* the state of the component when it is mounted (useState)
UiIdle ==
    /\ userImage = Null
    /\ clothingImage = Null
    /\ resultImage = Null
    /\ isLoading = FALSE
    /\ uiError = Null
    /\ activeTab = "upload"
    /\ clothingUrl = ""
    /\ inFlight = <<>>

\* the handler calls that may be awaited side by side in the model
MaxInFlight == 2

UploadedImages == {"data:image/jpeg;base64,USER"}

TypedUrls == {"", "https://www.nike.com/t/air-shoes"}

\* what the two routes answer, and what fetch rejects with
ImportedImages == {"https://cdn.example/og.jpg"}

ImportErrors == {"Invalid URL provided", "Failed to import from URL", "Failed to fetch"}

TryOnErrors == {"Failed to generate virtual try-on", "Failed to fetch"}

\* reader.onload of handleImageUpload, and handleCrop: the image is set.  The
\* file input of the user shows without a user image, that of the clothing
\* without a clothing image on the upload tab
handleImageUpload(type) ==
    /\ \E image \in UploadedImages :
          IF type = "user"
          THEN userImage' = image /\ UNCHANGED clothingImage
          ELSE /\ activeTab = "upload" \/ clothingImage # Null
               /\ clothingImage' = image /\ UNCHANGED userImage
    /\ UNCHANGED <<resultImage, isLoading, uiError, activeTab, clothingUrl, inFlight>>
    /\ UNCHANGED notUi

\* the Remove buttons: setUserImage(null), setClothingImage(null)
RemoveImage(type) ==
    /\ IF type = "user"
       THEN userImage # Null /\ userImage' = Null /\ UNCHANGED clothingImage
       ELSE clothingImage # Null /\ clothingImage' = Null /\ UNCHANGED userImage
    /\ UNCHANGED <<resultImage, isLoading, uiError, activeTab, clothingUrl, inFlight>>
    /\ UNCHANGED notUi

\* the tab switcher
SetActiveTab(tab) ==
    /\ activeTab' = tab
    /\ UNCHANGED <<userImage, clothingImage, resultImage, isLoading, uiError,
                   clothingUrl, inFlight>>
    /\ UNCHANGED notUi

\* the url input, shown on the url tab without a clothing image
SetClothingUrl(typed) ==
    /\ clothingImage = Null /\ activeTab = "url"
    /\ clothingUrl' = typed
    /\ UNCHANGED <<userImage, clothingImage, resultImage, isLoading, uiError,
                   activeTab, inFlight>>
    /\ UNCHANGED notUi

\* the Try Again button: setResultImage(null)
ClearResult ==
    /\ resultImage # Null
    /\ resultImage' = Null
    /\ UNCHANGED <<userImage, clothingImage, isLoading, uiError, activeTab,
                   clothingUrl, inFlight>>
    /\ UNCHANGED notUi

\* a variant of the button that stays enabled while a request runs
ImportDisabledWithoutUrl == clothingUrl = ""

\* disabled={!clothingUrl || isLoading}
ImportDisabled == clothingUrl = "" \/ isLoading

\* disabled={!userImage || !clothingImage || isLoading}
GenerateDisabled == userImage = Null \/ clothingImage = Null \/ isLoading

\* a click on Import from URL, up to the fetch: the button shows on the url
\* tab without a clothing image, and a disabled button takes no click
handleImportFromUrl ==
    /\ clothingImage = Null /\ activeTab = "url"
    /\ ~ImportDisabled
    /\ clothingUrl # ""
    /\ Len(inFlight) < MaxInFlight
    /\ isLoading' = TRUE
    /\ uiError' = Null
    /\ inFlight' = Append(inFlight, "import")
    /\ UNCHANGED <<userImage, clothingImage, resultImage, activeTab, clothingUrl>>
    /\ UNCHANGED notUi

\* the import request settles: try, catch and finally
ImportSettles(i) ==
    /\ i \in DOMAIN inFlight /\ inFlight[i] = "import"
    /\ \/ \E image \in ImportedImages :
             /\ clothingImage' = image
             /\ clothingUrl' = ""
             /\ activeTab' = "upload"
             /\ UNCHANGED uiError
       \/ \E message \in ImportErrors :
             /\ uiError' = message
             /\ UNCHANGED <<clothingImage, clothingUrl, activeTab>>
    /\ isLoading' = FALSE
    /\ inFlight' = SubSeq(inFlight, 1, i - 1) \o SubSeq(inFlight, i + 1, Len(inFlight))
    /\ UNCHANGED <<userImage, resultImage>>
    /\ UNCHANGED notUi

\* a click on Generate Try-On, up to the first await: the button shows
\* without a result image
generateTryOn ==
    /\ resultImage = Null
    /\ ~GenerateDisabled
    /\ userImage # Null /\ clothingImage # Null
    /\ Len(inFlight) < MaxInFlight
    /\ isLoading' = TRUE
    /\ uiError' = Null
    /\ inFlight' = Append(inFlight, "tryon")
    /\ UNCHANGED <<userImage, clothingImage, resultImage, activeTab, clothingUrl>>
    /\ UNCHANGED notUi

\* the blobs and the try-on request settle: try, catch and finally
TryOnSettles(i) ==
    /\ i \in DOMAIN inFlight /\ inFlight[i] = "tryon"
    /\ \/ resultImage' = "data:image/png;base64,AAAA" /\ UNCHANGED uiError
       \/ \E message \in TryOnErrors : uiError' = message /\ UNCHANGED resultImage
    /\ isLoading' = FALSE
    /\ inFlight' = SubSeq(inFlight, 1, i - 1) \o SubSeq(inFlight, i + 1, Len(inFlight))
    /\ UNCHANGED <<userImage, clothingImage, activeTab, clothingUrl>>
    /\ UNCHANGED notUi

----------------------------------------------------------------------------
(* Specifications *)

InitFit == FitInit /\ PriceIdle /\ ScrapeIdle /\ ImportIdle
    /\ MetaIdle /\ GuideIdle /\ TryIdle /\ ImageIdle /\ ApiIdle /\ UiIdle

SpecFit == InitFit /\ [][FitNext]_vars

InitPrice == PriceInit /\ FitIdle /\ ScrapeIdle /\ ImportIdle
    /\ MetaIdle /\ GuideIdle /\ TryIdle /\ ImageIdle /\ ApiIdle /\ UiIdle

SpecPrice == InitPrice /\ [][PriceNext]_vars

MaxElems == 2

\* the elements product pages are put together from
PageElements ==
    { Meta("property", "og:title", "OG Title"),
      Meta("name", "twitter:title", "Twitter Title"),
      Meta("name", "description", "Meta Description"),
      Meta("property", "og:image", "https://cdn.example/og.jpg"),
      Img(<<Attr("src", "/img/b.jpg")>>),
      Text(<<"$", "0">>),
      Text(<<"DATA_PRICE", "QUOTE", "4", "9", ".", "9", "9", "QUOTE">>),
      Text(<<"pound">>),
      Text(<<"euro", "4", " ", "pound">>),
      Text(<<"euro", " ", "size", " ", "1", "0", " ", "M", " ", "top">>),
      JsonLd(LdProduct), JsonLd(LdProductBare), JsonLd(LdProductNoOffer),
      JsonLd(LdOrganization), JsonLd(LdNull), JsonLd(LdInvalid) }

ProductPages == UNION {[1..n -> PageElements] : n \in 0..MaxElems}

ProductBodies == {Page(html) : html \in ProductPages} \cup {NotAString}

\* one call of scrapeProductPage
ScrapeNext ==
    \/ \E u \in Urls : CallScrapeProductPage("p1", u) /\ UNCHANGED notScrape
    \/ GetFails("p1") /\ UNCHANGED notScrape
    \/ GetResponds("p1", ProductBodies) /\ UNCHANGED notScrape
    \/ Extract("p1") /\ UNCHANGED notScrape
    \/ JsonLdBlock("p1") /\ UNCHANGED notScrape
    \/ ReturnProductData("p1") /\ UNCHANGED notScrape

InitScrape == ScrapeIdle /\ FitIdle /\ PriceIdle /\ ImportIdle
    /\ MetaIdle /\ GuideIdle /\ TryIdle /\ ImageIdle /\ ApiIdle /\ UiIdle

SpecScrape == InitScrape /\ [][ScrapeNext]_vars

MaxImportElems == 2

\* the elements of the product pages the handler is run on
ImportElements ==
    { Meta("property", "og:image", "https://cdn.example/og.jpg"),
      JsonLd(LdProduct), JsonLd(LdProductBare) }

ImportPages == UNION {[1..n -> ImportElements] : n \in 0..MaxImportElems}

ImportBodies == {Page(html) : html \in ImportPages} \cup {NotAString}

MaxTables == 2

\* the tables size-guide pages are put together from
ChartTables ==
    { Table({"Fit"}, <<"Size", "Chest", "LENGTH">>,
            << <<<<"M">>, <<"9", "4">>, <<"4", "1", ".", "9">>>>,
               <<<<"X", "L">>, <<"1", "0", "4">>>> >>),
      Table({"Returns"}, <<"Colour">>, << <<<<"M">>, <<"9">>>> >>),
      Table({"size"}, <<>>, <<>>),
      Table({}, <<"Size", "Waist">>, << <<<<"S">>, <<"9", "1">>>> >>),
      Table({"length"}, <<"Size", "Chest", "LENGTH">>,
            << <<<<"M">>, <<"9", "4">>, <<"4", "1", ".", "9">>>>,
               <<<<"M">>, <<"9", "1">>>> >>),
      Table({}, <<"Size", "Chest">>,
            << <<>>,
               <<<<"E", "U">>, <<"4">>>>,
               <<<<>>, <<"4", "0">>, <<"9", "0">>>>,
               <<<<"<b>", "L", "</b>">>, <<"9", "9">>>>,
               <<<<" ", "4", "4">>, <<"-">>, <<"1">>>> >>) }

ChartPages == UNION {[1..n -> ChartTables] : n \in 0..MaxTables}

ChartBodies == {Page(html) : html \in ChartPages} \cup {NotAString}

\* one request to the handler, with the calls it makes
ImportNext ==
    \/ CheckSession /\ UNCHANGED notImport
    \/ ReadBody /\ UNCHANGED notImport
    \/ GetFails("p1") /\ UNCHANGED notScrape
    \/ GetResponds("p1", ImportBodies) /\ UNCHANGED notScrape
    \/ Extract("p1") /\ UNCHANGED notScrape
    \/ JsonLdBlock("p1") /\ UNCHANGED notScrape
    \/ ReturnProductData("p1") /\ UNCHANGED notScrape
    \/ AfterScrape /\ UNCHANGED notImport
    \/ ChartGetFails("s1") /\ UNCHANGED notScrape
    \/ ChartGetResponds("s1", ChartBodies) /\ UNCHANGED notScrape
    \/ ChartTable("s1") /\ UNCHANGED notScrape
    \/ ReturnSizeChart("s1") /\ UNCHANGED notScrape
    \/ AfterChart /\ UNCHANGED notImport
    \/ Measure /\ UNCHANGED notImport
    \/ Save /\ UNCHANGED notImport

InitImport == ImportInit /\ ScrapeIdle /\ FitIdle /\ PriceIdle
    /\ MetaIdle /\ GuideIdle /\ TryIdle /\ ImageIdle /\ ApiIdle /\ UiIdle

SpecImport == InitImport /\ [][ImportNext]_vars

\* the URLs and the pages of the calls that run side by side
ConcurrentUrls == {"https://www.nike.com/t/air-shoes", "http://localhost/jeans"}

ConcurrentPages ==
    { <<Meta("property", "og:title", "OG Title"), JsonLd(LdProduct)>>,
      <<Text(<<"$", "0">>), JsonLd(LdProduct), JsonLd(LdProductBare)>>,
      <<JsonLd(LdNull)>> }

ConcurrentBodies == {Page(html) : html \in ConcurrentPages}

\* calls of scrapeProductPage in flight together: any call takes the next step
ConcurrentNext ==
    \E c \in ProductCalls :
        \/ \E u \in ConcurrentUrls : CallScrapeProductPage(c, u) /\ UNCHANGED notScrape
        \/ GetFails(c) /\ UNCHANGED notScrape
        \/ GetResponds(c, ConcurrentBodies) /\ UNCHANGED notScrape
        \/ Extract(c) /\ UNCHANGED notScrape
        \/ JsonLdBlock(c) /\ UNCHANGED notScrape
        \/ ReturnProductData(c) /\ UNCHANGED notScrape

SpecConcurrent == InitScrape /\ [][ConcurrentNext]_vars

MaxBlocks == 2

\* the elements of the pages that carry several JSON-LD blocks
BackfillElements ==
    { Meta("property", "og:title", "OG Title"),
      JsonLd(LdProduct), JsonLd(LdProductOther), JsonLd(LdProductPlain),
      JsonLd(LdProductBare), JsonLd(LdOrganization),
      JsonLd(LdInvalid), JsonLd(LdNull), JsonLd(LdProductMarkup) }

BackfillPages == UNION {[1..n -> BackfillElements] : n \in 0..MaxBlocks}

BackfillBodies == {Page(html) : html \in BackfillPages}

\* one call of scrapeProductPage on a page of JSON-LD blocks
BackfillNext ==
    \/ \E u \in Urls : CallScrapeProductPage("p1", u) /\ UNCHANGED notScrape
    \/ GetFails("p1") /\ UNCHANGED notScrape
    \/ GetResponds("p1", BackfillBodies) /\ UNCHANGED notScrape
    \/ Extract("p1") /\ UNCHANGED notScrape
    \/ JsonLdBlock("p1") /\ UNCHANGED notScrape
    \/ ReturnProductData("p1") /\ UNCHANGED notScrape

SpecBackfill == InitScrape /\ [][BackfillNext]_vars

ChartUrls == {sizeCharts[k] : k \in DOMAIN sizeCharts}

\* one call of scrapeSizeChart
ChartNext ==
    \/ \E u \in ChartUrls : CallScrapeSizeChart("s1", u) /\ UNCHANGED notScrape
    \/ ChartGetFails("s1") /\ UNCHANGED notScrape
    \/ ChartGetResponds("s1", ChartBodies) /\ UNCHANGED notScrape
    \/ ChartTable("s1") /\ UNCHANGED notScrape
    \/ ReturnSizeChart("s1") /\ UNCHANGED notScrape

SpecChart == InitScrape /\ [][ChartNext]_vars

InitMeta ==
    MetaInit /\ FitIdle /\ PriceIdle /\ ScrapeIdle /\ ImportIdle /\ GuideIdle /\ TryIdle /\ ImageIdle /\ ApiIdle /\ UiIdle

SpecMeta == InitMeta /\ [][MetaExtract]_vars

InitGuide ==
    GuideInit /\ FitIdle /\ PriceIdle /\ ScrapeIdle /\ ImportIdle /\ MetaIdle /\ TryIdle /\ ImageIdle /\ ApiIdle /\ UiIdle

SpecGuide == InitGuide /\ [][GuideLookup]_vars

TryNext == TryReadForm \/ TryGenerate \/ TrySaveHistory

InitTry ==
    TryInit /\ FitIdle /\ PriceIdle /\ ScrapeIdle /\ ImportIdle /\ MetaIdle /\ GuideIdle /\ ImageIdle /\ ApiIdle /\ UiIdle

SpecTry == InitTry /\ [][TryNext]_vars

InitImage ==
    ImageInit /\ FitIdle /\ PriceIdle /\ ScrapeIdle /\ ImportIdle /\ MetaIdle
    /\ GuideIdle /\ TryIdle /\ ApiIdle /\ UiIdle

SpecImage == InitImage /\ [][ImageExtract]_vars

InitApi ==
    ApiInit /\ FitIdle /\ PriceIdle /\ ScrapeIdle /\ ImportIdle /\ MetaIdle
    /\ GuideIdle /\ TryIdle /\ ImageIdle /\ UiIdle

SpecApi == InitApi /\ [][ApiHandle]_vars

\* the events of the mounted component
UiNext ==
    \/ \E type \in {"user", "clothing"} : handleImageUpload(type)
    \/ \E type \in {"user", "clothing"} : RemoveImage(type)
    \/ \E tab \in {"upload", "url"} : SetActiveTab(tab)
    \/ \E typed \in TypedUrls : SetClothingUrl(typed)
    \/ ClearResult
    \/ handleImportFromUrl
    \/ \E i \in 1..MaxInFlight : ImportSettles(i)
    \/ generateTryOn
    \/ \E i \in 1..MaxInFlight : TryOnSettles(i)

InitUi ==
    UiIdle /\ FitIdle /\ PriceIdle /\ ScrapeIdle /\ ImportIdle /\ MetaIdle
    /\ GuideIdle /\ TryIdle /\ ImageIdle /\ ApiIdle

SpecUi == InitUi /\ [][UiNext]_vars

----------------------------------------------------------------------------
(* Claims about checkFitCompatibility, under SpecFit *)

HasWarning(kind, key) ==
    \E i \in DOMAIN fitResult.warnings :
        fitResult.warnings[i].key = key /\ fitResult.warnings[i].kind = kind

ChestExample ==
    /\ userMeasurements = <<[key |-> "chest", value |-> 100]>>
    /\ itemMeasurements = [k \in {"chest"} |-> 90]

\* C1: in every result, fits is true if and only if score > 70 and the
\* warnings list is empty; user {chest: 100} against item {chest: 90} gives one
\* tight warning for chest, score 90 and fits = false.
C1_FitsIffScoreAbove70AndNoWarnings ==
    fitPc = "done" =>
        /\ fitResult.fits <=>
              (NumLess(Frac(70, 1), fitResult.score) /\ fitResult.warnings = <<>>)
        /\ ChestExample =>
              /\ Len(fitResult.warnings) = 1
              /\ HasWarning("tight", "chest")
              /\ fitResult.score = Frac(90, 1)
              /\ fitResult.fits = FALSE

C1_Witness ==
    /\ fitPc = "done"
    /\ ChestExample
    /\ fitResult.warnings # <<>>
    /\ NumLess(Frac(70, 1), fitResult.score)
    /\ ~fitResult.fits

\* C2: for every key held by both mappings with userValue > 0, the result has
\* a tight warning for the key exactly when itemValue < userValue * 0.95 and a
\* loose warning exactly when itemValue > userValue * 1.10 (neither at the
\* boundaries or between them).
C2_WarningsFollowThresholds ==
    fitPc = "done" =>
        \A i \in DOMAIN userMeasurements :
            LET key == userMeasurements[i].key
                userValue == userMeasurements[i].value
            IN  (key \in DOMAIN itemMeasurements /\ userValue > 0) =>
                    LET itemValue == itemMeasurements[key]
                    IN  /\ HasWarning("tight", key) <=>
                              (itemValue * 100 < userValue * 95)
                        /\ HasWarning("loose", key) <=>
                              (itemValue * 100 > userValue * 110)

\* the positions of the user's entries that the loop compares
Compared ==
    {i \in DOMAIN userMeasurements :
        /\ userMeasurements[i].key \in DOMAIN itemMeasurements
        /\ itemMeasurements[userMeasurements[i].key] # 0}

RECURSIVE SumAbsDiff(_)
SumAbsDiff(S) ==
    IF S = {} THEN Zero
    ELSE LET i == CHOOSE x \in S : TRUE
             u == userMeasurements[i].value
             v == itemMeasurements[userMeasurements[i].key]
             d == IF u = 0 THEN Infinity(1)
                  ELSE Frac(Abs(v - u) * 100, Abs(u))
         IN  NumAdd(SumAbsDiff(S \ {i}), d)

MeanAbsDiff ==
    IF Compared = {} THEN Frac(100, 1)
    ELSE NumDivInt(SumAbsDiff(Compared), Cardinality(Compared))

\* C3: score = max(0, 100 - A) with A the mean absolute percentage difference
\* over the compared keys, A = 100 when none was compared; so 0 <= score <= 100,
\* and with no compared key score = 0 and fits = false.
C3_ScoreIsClampedHundredMinusMean ==
    fitPc = "done" =>
        /\ fitResult.score = NumMax(Zero, HundredMinus(MeanAbsDiff))
        /\ ~NumLess(fitResult.score, Zero)
        /\ ~NumLess(Frac(100, 1), fitResult.score)
        /\ Compared = {} => (fitResult.score = Zero /\ fitResult.fits = FALSE)

C3_Witness ==
    /\ fitPc = "done"
    /\ userMeasurements # <<>>
    /\ DOMAIN itemMeasurements # {}
    /\ \A i \in DOMAIN userMeasurements :
           userMeasurements[i].key \notin DOMAIN itemMeasurements
    /\ fitResult.score = Zero
    /\ ~fitResult.fits

----------------------------------------------------------------------------
(* Claims about extractPrice, under SpecPrice *)

\* the number the first match of a pattern parses to, NaN without a match
ParsedBy(name) ==
    IF Match(priceHtml, name) = NoMatch THEN NaN
    ELSE ParseFloat(RemoveCommas(Match(priceHtml, name)))

Supplies(name) == ~IsNaN(ParsedBy(name))

\* C8: the patterns are tried in the order symbol-prefixed, symbol-suffixed,
\* "price": field, data-price attribute; the price returned is the number of
\* the first pattern in that order whose match parses, a later pattern counts
\* only when every earlier one has no match or a match that does not parse,
\* and when no pattern gives a number the result has no price and no currency.
C8_FirstParsingPatternWins ==
    pricePc = "done" =>
        /\ Supplies("prefixed") => priceData.price = ParsedBy("prefixed")
        /\ (~Supplies("prefixed") /\ Supplies("suffixed")) =>
              priceData.price = ParsedBy("suffixed")
        /\ (~Supplies("prefixed") /\ ~Supplies("suffixed") /\ Supplies("json")) =>
              priceData.price = ParsedBy("json")
        /\ (~Supplies("prefixed") /\ ~Supplies("suffixed") /\ ~Supplies("json")
              /\ Supplies("data")) =>
              priceData.price = ParsedBy("data")
        /\ (~Supplies("prefixed") /\ ~Supplies("suffixed") /\ ~Supplies("json")
              /\ ~Supplies("data")) =>
              (priceData.price = UndefinedNumber /\ priceData.currency = Undefined)

\* the data-price attribute supplies the price although the symbol-prefixed
\* pattern matched: its match does not parse
C8_Witness ==
    /\ pricePc = "done"
    /\ Match(priceHtml, "prefixed") # NoMatch
    /\ ~Supplies("prefixed")
    /\ ~Supplies("suffixed")
    /\ ~Supplies("json")
    /\ Supplies("data")
    /\ priceData.price = Frac(4999, 100)

----------------------------------------------------------------------------
(* Claims about scrapeProductPage, under SpecScrape *)

\* the first block of a list that throws, 0 when none does
FirstThrowing(blocks) ==
    LET at == {i \in DOMAIN blocks : Throws(blocks[i])}
    IN  IF at = {} THEN 0 ELSE CHOOSE i \in at : \A j \in at : i <= j

\* what goes wrong in a call, from what the request settled with: the message
\* of the error thrown inside the try block, "" when nothing is thrown
CauseOfFailure(c) ==
    IF response[c].status = "failed" THEN response[c].cause
    ELSE IF ~response[c].isString THEN "html.match is not a function"
    ELSE LET blocks == extractJsonLd(response[c].html)
         IN  IF FirstThrowing(blocks) = 0 THEN ""
             ELSE TypeErrorMessage(blocks[FirstThrowing(blocks)])

\* C4: a call of scrapeProductPage ends in one of two ways: resolved with a
\* record, or rejected with the message "Failed to scrape product page: "
\* followed by the cause's message.  It is rejected exactly when the request
\* failed or extraction threw, and a rejected call hands back no record.
C4_ResolvesOrRejectsWrapped ==
    \A c \in ProductCalls :
        /\ Settled(c) <=> result[c].kind # "pending"
        /\ Settled(c) =>
              /\ result[c].kind \in {"resolved", "rejected"}
              /\ result[c].kind = "rejected" <=> CauseOfFailure(c) # ""
              /\ result[c].kind = "rejected" =>
                    /\ result[c].message =
                          <<"Failed to scrape product page: ", CauseOfFailure(c)>>
                    /\ result[c].value = NoProductData
              /\ result[c].kind = "resolved" => result[c].message = <<>>

\* a call rejected for an exception thrown while the JSON-LD blocks are read
C4_Witness ==
    /\ pc["p1"] = "rejected"
    /\ response["p1"].status = "ok"
    /\ response["p1"].isString
    /\ productData["p1"].name # Undefined
    /\ result["p1"].message =
          <<"Failed to scrape product page: ",
            "Cannot read properties of null (reading '@type')">>

\* the price and currency extractPrice gives for the page of a call
ExtractedPrice(c) == extractPrice(PageText(response[c].html))

HasSign(c, sign) ==
    \E i \in DOMAIN PageText(response[c].html) : PageText(response[c].html)[i] = sign

\* the only price indicator is data-price="49.99", and no currency sign
OnlyDataPrice(c) ==
    LET str == PageText(response[c].html)
    IN  /\ Match(str, "data") = <<"4", "9", ".", "9", "9">>
        /\ Match(str, "prefixed") = NoMatch
        /\ Match(str, "suffixed") = NoMatch
        /\ Match(str, "json") = NoMatch
        /\ \A i \in DOMAIN str : str[i] \notin CurrencySigns

\* C9: a price from extractPrice comes with a currency that depends on the
\* signs in the document alone: GBP with a pound sign, else EUR with a euro
\* sign, else USD.  A page whose only price indicator is data-price="49.99",
\* without a currency sign, gives price 49.99 and currency USD, in the record
\* scrapeProductPage returns too.
C9_CurrencyFromSigns ==
    \A c \in ProductCalls :
        (response[c].status = "ok" /\ response[c].isString) =>
            /\ ExtractedPrice(c).price # UndefinedNumber =>
                  ExtractedPrice(c).currency =
                      IF HasSign(c, "pound") THEN "GBP"
                      ELSE IF HasSign(c, "euro") THEN "EUR"
                      ELSE "USD"
            /\ OnlyDataPrice(c) =>
                  /\ ExtractedPrice(c) = [price |-> Frac(4999, 100), currency |-> "USD"]
                  /\ pc[c] = "resolved" =>
                        /\ result[c].value.price = Frac(4999, 100)
                        /\ result[c].value.currency = "USD"

C9_Witness ==
    /\ pc["p1"] = "resolved"
    /\ OnlyDataPrice("p1")
    /\ jsonLd["p1"] # <<>>
    /\ result["p1"].value.price = Frac(4999, 100)
    /\ result["p1"].value.currency = "USD"

\* what the meta tags and the page-text extractors give for the page of a call
Preferred(c) ==
    BuildProductData(extractMetaTags(response[c].html),
                     extractImages(response[c].html, url[c]),
                     extractSizes(PageText(response[c].html)),
                     extractPrice(PageText(response[c].html)))

\* C10: for name, description, price, currency and imageUrl, a value the meta
\* tags or the page-text extractors produced is the value of the returned
\* record, whatever the JSON-LD Product blocks hold.
C10_ExtractedValuesArePreferred ==
    \A c \in ProductCalls :
        pc[c] = "resolved" =>
            /\ Preferred(c).name # Undefined =>
                  result[c].value.name = Preferred(c).name
            /\ Preferred(c).description # Undefined =>
                  result[c].value.description = Preferred(c).description
            /\ Preferred(c).price # UndefinedNumber =>
                  result[c].value.price = Preferred(c).price
            /\ Preferred(c).currency # Undefined =>
                  result[c].value.currency = Preferred(c).currency
            /\ Preferred(c).imageUrl # Undefined =>
                  result[c].value.imageUrl = Preferred(c).imageUrl

----------------------------------------------------------------------------
(* Claims about the import-url handler and its calls, under SpecImport *)

\* a table of the page gives the chart an entry
Usable(table) == HasSizingWord(table) /\ DOMAIN ParseTable(EmptyChart, table) # {}

NoUsableTable(c) ==
    \/ response[c].status = "failed"
    \/ \A i \in DOMAIN response[c].html : ~Usable(response[c].html[i])

\* C5: scrapeSizeChart never rejects: a failed request, like a page without a
\* usable table, makes it resolve with the empty object.  The handler goes on
\* after that: the size chart never makes it answer with an error, and the
\* item it writes then holds no sizeChart.
C5_SizeChartFailureIsNotAnError ==
    /\ result["s1"].kind # "rejected"
    /\ Settled("s1") =>
          /\ result["s1"].kind = "resolved"
          /\ NoUsableTable("s1") <=> result["s1"].chart = EmptyChart
    /\ (response["s1"].status = "failed" /\ importPc \notin {"chart"}) =>
          /\ importPc \in {"measure", "save", "done"}
          /\ ~sizingData.hasSizeChart
    /\ (importPc = "done" /\ Settled("s1") /\ result["s1"].chart = EmptyChart) =>
          \/ /\ reply.status = 200
             /\ clothingItems = <<reply.item>>
             /\ ~reply.item.sizingData.hasSizeChart
             /\ ~reply.sizingData.hasSizeChart
          \/ /\ reply.status = 500
             /\ reply.details = DatabaseError
             /\ clothingItems = <<>>

\* the size-guide request failed and the item is written without a chart
C5_Witness ==
    /\ importPc = "done"
    /\ response["s1"].status = "failed"
    /\ reply.status = 200
    /\ Len(clothingItems) = 1
    /\ ~clothingItems[1].sizingData.hasSizeChart
    /\ clothingItems[1].sizingData.size = "M"

\* C6: no request is sent a second time: a call issues exactly one GET, and
\* when that GET fails the call reports the failure at once, scrapeProductPage
\* by rejecting, scrapeSizeChart by resolving with the empty object.
C6_OneGetPerCall ==
    \A c \in {"p1", "s1"} :
        /\ requests[c] = IF pc[c] = "idle" THEN 0 ELSE 1
        /\ response[c].status = "failed" =>
              /\ Settled(c)
              /\ c = "p1" => result[c].kind = "rejected"
              /\ c = "s1" => result[c] = ResolvedChart(EmptyChart)

\* the request for the product page failed, and it was the only one sent
C6_Witness ==
    /\ response["p1"].status = "failed"
    /\ response["p1"].cause = "timeout of 10000ms exceeded"
    /\ requests["p1"] = 1
    /\ requests["s1"] = 0
    /\ importPc = "done"
    /\ reply.status = 500

----------------------------------------------------------------------------
(* Claims about calls in flight together, under SpecConcurrent *)

----------------------------------------------------------------------------
(* Claims about the JSON-LD pass of scrapeProductPage, under SpecBackfill *)

\* the Product blocks of the page of a call, in document order
RECURSIVE ProductsOf(_)
ProductsOf(blocks) ==
    IF blocks = <<>> THEN <<>>
    ELSE (IF Head(blocks).parse = "object" /\ IsProduct(Head(blocks))
          THEN <<Head(blocks)>> ELSE <<>>) \o ProductsOf(Tail(blocks))

ProductBlocks(c) == ProductsOf(extractJsonLd(response[c].html))

\* the brands the Product blocks of the page supply
SuppliedBrands(c) ==
    {LdBrand(ProductBlocks(c)[i]) : i \in DOMAIN ProductBlocks(c)} \ {Undefined, ""}

\* C11: the brand of the returned record is one a JSON-LD Product block
\* supplies whenever some block supplies one, the hostname not being
\* consulted then; when no block supplies one it is the second-to-last label
\* of the hostname of the URL (nike for https://www.nike.com/...).
C11_BrandFromJsonLdElseHostname ==
    \A c \in ProductCalls :
        pc[c] = "resolved" =>
            IF SuppliedBrands(c) # {}
            THEN result[c].value.brand \in SuppliedBrands(c)
            ELSE result[c].value.brand = BrandFromUrl(url[c])

\* a field keeps the value it has; a field without one takes the block's
FirstWins(data, product) ==
    LET offered == product.offersShape # "absent"
        pictured == product.imageShape # "absent"
    IN  [data EXCEPT
           !.name = OrString(@, StringOrUndefined(product.name)),
           !.brand = OrString(@, LdBrand(product)),
           !.description = OrString(@, StringOrUndefined(product.description)),
           !.price = IF offered THEN OrNumber(@, LdPrice(product)) ELSE @,
           !.currency = IF offered THEN OrString(@, product.priceCurrency) ELSE @,
           !.imageUrl = IF pictured THEN OrString(@, LdImage(product)) ELSE @]

RECURSIVE FirstWinsAll(_, _)
FirstWinsAll(data, products) ==
    IF products = <<>> THEN data
    ELSE FirstWinsAll(FirstWins(data, Head(products)), Tail(products))

\* C19: with several JSON-LD Product blocks, each of name, brand, description,
\* price, currency and imageUrl that is backfilled holds the value of the first
\* Product block in document order that provides it: a later block neither
\* changes nor clears it.
C19_FirstProductBlockWins ==
    \A c \in ProductCalls :
        pc[c] = "resolved" =>
            LET expected == InferBrand(FirstWinsAll(Preferred(c), ProductBlocks(c)), url[c])
            IN  /\ result[c].value.name = expected.name
                /\ result[c].value.brand = expected.brand
                /\ result[c].value.description = expected.description
                /\ result[c].value.price = expected.price
                /\ result[c].value.currency = expected.currency
                /\ result[c].value.imageUrl = expected.imageUrl

----------------------------------------------------------------------------
(* Claims about the category, under SpecScrape *)

InUrl(c, words) == UrlEntry(url[c]).words \cap words # {}

InHtml(c, words) ==
    \E i \in DOMAIN PageText(response[c].html) : PageText(response[c].html)[i] \in words

\* C12: the category of the returned record is the first of shirt, pants,
\* dress, shoes, jacket whose keywords match the URL or the HTML, and undefined
\* when none does; no category is assigned before that one.
C12_FirstMatchingCategory ==
    \A c \in ProductCalls :
        /\ pc[c] # "resolved" => productData[c].category = Undefined
        /\ pc[c] = "resolved" =>
              result[c].value.category =
                  IF InUrl(c, ShirtWords) \/ InHtml(c, ShirtWords) THEN "shirt"
                  ELSE IF InUrl(c, PantsWords) \/ InHtml(c, PantsWords) THEN "pants"
                  ELSE IF InUrl(c, DressWords) \/ InHtml(c, DressWords) THEN "dress"
                  ELSE IF InUrl(c, ShoesWords) \/ InHtml(c, ShoesWords) THEN "shoes"
                  ELSE IF InUrl(c, JacketWords) \/ InHtml(c, JacketWords) THEN "jacket"
                  ELSE Undefined

\* the URL matches shoes, the HTML matches shirt, declared before it
C12_Witness ==
    /\ pc["p1"] = "resolved"
    /\ InUrl("p1", ShoesWords)
    /\ InHtml("p1", ShirtWords)
    /\ ~InUrl("p1", ShirtWords)
    /\ result["p1"].value.category = "shirt"

WordsOf(category) ==
    CASE category = "shirt" -> ShirtWords
      [] category = "pants" -> PantsWords
      [] category = "dress" -> DressWords
      [] category = "shoes" -> ShoesWords
      [] category = "jacket" -> JacketWords

CategoryNames == {"shirt", "pants", "dress", "shoes", "jacket"}

\* C20: the URL is consulted before the HTML body: when the keywords of one
\* category match the URL and those of a different category match the HTML
\* body only, the returned category is the one the URL matches.
C20_UrlBeforeHtml ==
    \A c \in ProductCalls :
        \A a, b \in CategoryNames :
            (/\ pc[c] = "resolved"
             /\ a # b
             /\ InUrl(c, WordsOf(a))
             /\ InHtml(c, WordsOf(b)) /\ ~InUrl(c, WordsOf(b)))
            => InUrl(c, WordsOf(result[c].value.category))

----------------------------------------------------------------------------
(* Claims about scrapeSizeChart, under SpecChart *)

\* the text of a table holds a word, whatever its case
Contains(table, word) ==
    \/ \E w \in table.words : ToLowerCase(w) = word
    \/ \E i \in DOMAIN table.headers : ToLowerCase(table.headers[i]) = word

\* the page has two tables and only the second holds the word chest
OnlySecondHasChest(c) ==
    /\ pc[c] = "resolved"
    /\ response[c].status = "ok" /\ response[c].isString
    /\ Len(response[c].html) = 2
    /\ ~Contains(response[c].html[1], "chest")
    /\ Contains(response[c].html[2], "chest")

\* the chart the rows of one table give
ChartOf(table) == AddRows(EmptyChart, table.rows, table.headers)

\* C13, for any first table: with two tables of which only the second holds the word
\* chest, the returned chart is built from the second table alone.
C13_ChartFromSecondTable ==
    OnlySecondHasChest("s1") =>
        result["s1"].chart = ChartOf(response["s1"].html[2])

\* C13, for a first table that is skipped: with two tables of which the first holds none of the words
\* size, chest, waist, length and the second holds the word chest, the
\* returned chart is built from the second table alone: no row of the first
\* table contributes an entry.
C13_ChartFromSecondTableWhenFirstIsSkipped ==
    (/\ OnlySecondHasChest("s1")
     /\ \A w \in SizingWords : ~Contains(response["s1"].html[1], w))
    => result["s1"].chart = ChartOf(response["s1"].html[2])

\* the first table has a row for M and no sizing word; the chart has the M
\* of the second table
C13_Witness ==
    /\ OnlySecondHasChest("s1")
    /\ \A w \in SizingWords : ~Contains(response["s1"].html[1], w)
    /\ ChartOf(response["s1"].html[1]) # EmptyChart
    /\ <<"M">> \in DOMAIN result["s1"].chart
    /\ "chest" \in DOMAIN result["s1"].chart[<<"M">>]

----------------------------------------------------------------------------
(* Claims about extractMetaTags, under SpecMeta *)

\* the tags of the document one of the three patterns matches for a key
TagsFor(key) ==
    {i \in DOMAIN metaHtml :
        /\ metaHtml[i].t = "meta"
        /\ metaHtml[i].key = key
        /\ \/ metaHtml[i].attr = "name"
           \/ (metaHtml[i].attr = "property" /\ key \in OgKeys)}

Last(S) == CHOOSE i \in S : \A j \in S : j <= i

\* C14: in the returned mapping the value of a key is the content of the last
\* tag in document order that matches the key, and a key no tag matches is
\* absent; so a document with <meta property="og:title" content="X"> as its
\* last og:title tag maps og:title to X.
C14_LastTagInDocumentOrderWins ==
    metaPc = "done" =>
        \A key \in MetaKeys :
            metaReturned[key] =
                IF TagsFor(key) = {} THEN Undefined
                ELSE metaHtml[Last(TagsFor(key))].content

----------------------------------------------------------------------------
(* Claims about getSizeChartUrl, under SpecGuide *)

\* the brand in lower case without its non-alphanumeric characters
RECURSIVE Alphanumeric(_)
Alphanumeric(str) ==
    IF str = <<>> THEN <<>>
    ELSE (IF LowerChar(Head(str)) \in LowerCaseLetters \cup
                                        {"0", "1", "2", "3", "4", "5", "6", "7", "8", "9"}
          THEN <<LowerChar(Head(str))>> ELSE <<>>) \o Alphanumeric(Tail(str))

\* C15: the lookup key is the brand in lower case with every non-alphanumeric
\* character removed; the result is the URL of the table when the key is one
\* of its seven entries and null otherwise, whatever the category, and no
\* request is sent.
C15_KeyIsAlphanumericLowerCase ==
    guidePc = "done" =>
        /\ guideUrl =
              IF Alphanumeric(BrandChars(guideBrand)) \in DOMAIN sizeCharts
              THEN sizeCharts[Alphanumeric(BrandChars(guideBrand))]
              ELSE Null
        /\ \A c \in CallIds : requests[c] = 0

----------------------------------------------------------------------------
(* Claims about the try-on route, under SpecTry *)

\* the handler has answered a request that carries both images
BothImages ==
    /\ tryPc = "done"
    /\ tryForm.parse = "ok" /\ tryForm.userImage /\ tryForm.clothingImage

\* and the image was generated
Generated == BothImages /\ tryImage.status = "ok"

----------------------------------------------------------------------------
(* More claims about checkFitCompatibility, under SpecFit *)

\* the entries of the user whose key the item holds too
InBoth == {i \in DOMAIN userMeasurements : userMeasurements[i].key \in DOMAIN itemMeasurements}

\* C17: the keys that count for the score are the keys both mappings hold:
\* each of them is compared and counted in the average, and a key only one of
\* them holds is not.
C17_KeysInBothAreCounted ==
    fitPc = "done" => measurementCount = Cardinality(InBoth)

\* the position of a key in the user's entries
PositionOf(key) == CHOOSE i \in DOMAIN userMeasurements : userMeasurements[i].key = key

\* C18: recommendations and warnings have the same length, and recommendation
\* i is for the key of warning i: size up for a tight warning, size down or
\* tailor for a loose one; both lists follow the order of the user's keys.
C18_OneRecommendationPerWarning ==
    /\ Len(recommendations) = Len(warnings)
    /\ fitPc = "done" =>
          /\ Len(fitResult.recommendations) = Len(fitResult.warnings)
          /\ \A i \in DOMAIN fitResult.warnings :
                /\ fitResult.recommendations[i].key = fitResult.warnings[i].key
                /\ fitResult.warnings[i].kind = "tight" =>
                      fitResult.recommendations[i].kind = "sizeUp"
                /\ fitResult.warnings[i].kind = "loose" =>
                      fitResult.recommendations[i].kind = "sizeDownOrTailor"
                /\ fitResult.warnings[i].kind \in {"tight", "loose"}
          /\ \A i, j \in DOMAIN fitResult.warnings :
                i < j => PositionOf(fitResult.warnings[i].key)
                             < PositionOf(fitResult.warnings[j].key)

\* a tight warning for the first key and a loose one for the second
C18_Witness ==
    /\ fitPc = "done"
    /\ Len(fitResult.warnings) = 2
    /\ fitResult.warnings[1].kind = "tight"
    /\ fitResult.warnings[2].kind = "loose"
    /\ fitResult.recommendations[1] = SizeUp(userMeasurements[1].key)
    /\ fitResult.recommendations[2] = SizeDownOrTailor(userMeasurements[2].key)


-----------------------------------------------------------------------------
(* Claims about the loop over the tables and rows, under SpecChart *)

\* the size-chart call got a page and has started the loop over its tables
Scanning(c) ==
    /\ pc[c] \in {"tables", "return", "resolved"}
    /\ response[c].status = "ok"

\* the tables that have a sizing word and give at least one entry
Yielding(html) ==
    {i \in DOMAIN html : HasSizingWord(html[i]) /\ ChartOf(html[i]) # EmptyChart}

\* the first of them in document order; 0 when there is none
FirstYielding(html) ==
    IF Yielding(html) = {} THEN 0
    ELSE CHOOSE i \in Yielding(html) : \A j \in Yielding(html) : i <= j

\* C21: the tables are processed in document order and the loop stops at the
\* first table after which the chart holds an entry: no table after it is
\* examined, and the returned chart is the chart of that single table (the
\* empty chart when no table yields an entry).
C21_StopsAtFirstYieldingTable ==
    Scanning("s1") =>
        LET html == response["s1"].html
            first == FirstYielding(html)
        IN  /\ first # 0 => tableIdx["s1"] <= first + 1
            /\ (pc["s1"] = "resolved" /\ first # 0) =>
                   result["s1"].chart = ChartOf(html[first])
            /\ (pc["s1"] = "resolved" /\ first = 0) =>
                   result["s1"].chart = EmptyChart

\* the first table gives one entry, the second would give two: the chart
\* returned holds the one entry of the first
C21_Witness ==
    /\ pc["s1"] = "resolved" /\ response["s1"].status = "ok"
    /\ Len(response["s1"].html) = 2
    /\ FirstYielding(response["s1"].html) = 1
    /\ HasSizingWord(response["s1"].html[2])
    /\ Cardinality(DOMAIN ChartOf(response["s1"].html[2]))
         > Cardinality(DOMAIN ChartOf(response["s1"].html[1]))
    /\ result["s1"].chart = ChartOf(response["s1"].html[1])
    /\ tableIdx["s1"] = 2


\* the rows of a table whose first matched cell is the label
RowsFor(table, label) ==
    {i \in DOMAIN table.rows :
        Cells(table.rows[i]) # <<>> /\ Cells(table.rows[i])[1] = label}

\* the last of them
LastRowFor(table, label) ==
    CHOOSE i \in RowsFor(table, label) : \A j \in RowsFor(table, label) : j <= i

\* the measurements one row gives on its own
RowMeasurements(table, i) ==
    Measurements(EmptyRecord, Cells(table.rows[i]), table.headers, 2)

\* the table the returned chart was built from
Processed(c) == response[c].html[FirstYielding(response[c].html)]

\* C22: when several rows of the processed table carry the same size label,
\* the entry of that label holds the measurements of the last such row and
\* nothing else: the mapping of an earlier row is replaced, not merged.
C22_LaterRowReplacesEarlier ==
    (/\ pc["s1"] = "resolved" /\ response["s1"].status = "ok"
     /\ FirstYielding(response["s1"].html) # 0)
    => \A label \in DOMAIN result["s1"].chart :
          result["s1"].chart[label]
            = RowMeasurements(Processed("s1"), LastRowFor(Processed("s1"), label))

\* two rows carry the label M, the earlier one alone has a length: the entry
\* of M has no length
C22_Witness ==
    /\ pc["s1"] = "resolved" /\ response["s1"].status = "ok"
    /\ FirstYielding(response["s1"].html) # 0
    /\ Cardinality(RowsFor(Processed("s1"), <<"M">>)) = 2
    /\ \E i \in RowsFor(Processed("s1"), <<"M">>) :
          /\ i < LastRowFor(Processed("s1"), <<"M">>)
          /\ "length" \in DOMAIN RowMeasurements(Processed("s1"), i)
    /\ "length" \notin DOMAIN result["s1"].chart[<<"M">>]
    /\ "chest" \in DOMAIN result["s1"].chart[<<"M">>]


\* the text of a <td> cell: its content without markup, trimmed
RECURSIVE TextOf(_)
TextOf(cell) ==
    IF cell = <<>> THEN <<>>
    ELSE IF Head(cell) \in Markup THEN TextOf(Tail(cell))
         ELSE Trim(<<Head(cell)>> \o TextOf(Tail(cell)))

\* the texts of the <td> cells of a row, every cell at its own position
RECURSIVE CellTexts(_)
CellTexts(row) ==
    IF row = <<>> THEN <<>> ELSE <<TextOf(Head(row))>> \o CellTexts(Tail(row))

\* a row read by the text of its first <td> cell
AddRowByFirstCell(chart, row, headers) ==
    IF row # <<>> /\ IsSizeLabel(TextOf(row[1]))
    THEN Put(chart, TextOf(row[1]),
             Measurements(EmptyRecord, CellTexts(row), headers, 2))
    ELSE chart

RECURSIVE AddRowsByFirstCell(_, _, _)
AddRowsByFirstCell(chart, rows, headers) ==
    IF rows = <<>> THEN chart
    ELSE AddRowsByFirstCell(AddRowByFirstCell(chart, Head(rows), headers),
                            Tail(rows), headers)

\* C23: within a qualifying table a row adds an entry only if the text of
\* its first <td> cell is a size token or a bare integer, the entry holding
\* each remaining cell that parses as a number under the lower-cased header
\* of its position; a row whose first cell is anything else, and a row with
\* no <td> cell, leaves the chart unchanged.
C23_EntryOnlyForSizeLabelInFirstCell ==
    (/\ pc["s1"] = "resolved" /\ response["s1"].status = "ok"
     /\ \E i \in DOMAIN response["s1"].html : HasSizingWord(response["s1"].html[i]))
    => \E i \in DOMAIN response["s1"].html :
          /\ HasSizingWord(response["s1"].html[i])
          /\ result["s1"].chart
               = AddRowsByFirstCell(EmptyChart, response["s1"].html[i].rows,
                                    response["s1"].html[i].headers)


-----------------------------------------------------------------------------
(* Claims about extractJsonLd, under SpecBackfill *)

\* the parsed values of the blocks of a page that hold valid JSON, in
\* document order
RECURSIVE ValidBlocks(_)
ValidBlocks(html) ==
    IF html = <<>> THEN <<>>
    ELSE IF Head(html).t = "ld" /\ Head(html).ld.parse # "invalid"
         THEN <<Head(html).ld>> \o ValidBlocks(Tail(html))
         ELSE ValidBlocks(Tail(html))

\* C24: every application/ld+json block is parsed on its own; a block that
\* is not valid JSON is skipped, and the list returned holds the parsed
\* values of exactly the valid blocks, in document order.
C24_ExactlyTheValidBlocks ==
    (ldIdx["p1"] >= 1 /\ response["p1"].status = "ok")
    => jsonLd["p1"] = ValidBlocks(response["p1"].html)


-----------------------------------------------------------------------------
(* Claims about extractImages, under SpecImage *)

\* the absolute URLs of the attributes named name, in tags of the kinds given
UrlsOf(name, kinds) ==
    {Absolute(imageHtml[i].attrs[j].value, imageBase) :
        <<i, j>> \in {p \in (DOMAIN imageHtml) \X (1..2) :
                        /\ imageHtml[p[1]].t \in kinds
                        /\ p[2] \in DOMAIN imageHtml[p[1]].attrs
                        /\ imageHtml[p[1]].attrs[p[2]].name = name}}

DataSrcUrls == UrlsOf("data-src", {"img", "lazy"})

\* the src attributes of the img tags that name no icon and no logo
SrcUrls ==
    {Absolute(imageHtml[i].attrs[j].value, imageBase) :
        <<i, j>> \in {p \in (DOMAIN imageHtml) \X (1..2) :
                        /\ imageHtml[p[1]].t = "img"
                        /\ p[2] \in DOMAIN imageHtml[p[1]].attrs
                        /\ imageHtml[p[1]].attrs[p[2]].name = "src"
                        /\ ~IconOrLogo(imageHtml[p[1]].attrs[p[2]].value)}}

\* C25: the list has no duplicates; a URL containing icon or logo is in it
\* if and only if it is the value of a data-src attribute, every data-src
\* URL being kept; and the URLs of the src pass precede those that only the
\* data-src pass adds.
C25_IconOrLogoOnlyFromDataSrc ==
    imagePc = "done" =>
        /\ \A i, j \in DOMAIN imagesReturned :
              imagesReturned[i] = imagesReturned[j] => i = j
        /\ \A i \in DOMAIN imagesReturned :
              IconOrLogo(imagesReturned[i]) => imagesReturned[i] \in DataSrcUrls
        /\ \A u \in DataSrcUrls : \E i \in DOMAIN imagesReturned : imagesReturned[i] = u
        /\ \A i, j \in DOMAIN imagesReturned :
              (imagesReturned[i] \notin SrcUrls /\ imagesReturned[j] \in SrcUrls)
              => j < i


-----------------------------------------------------------------------------
(* Claims about the import-url handler, under SpecImport *)

\* the url of the request is a non-empty string that starts with http
ValidUrl == 
    /\ requestBody.parse = "ok"
    /\ TruthyString(requestBody.url)
    /\ requestBody.url # NonString
    /\ StartsWithHttp(requestBody.url)

\* C26: at most one record is created per request, and only when the session
\* has a user id, the url is a non-empty string starting with http,
\* scrapeProductPage has resolved and its record holds an imageUrl; a request
\* that ends without a record is answered 401, 400 or 500; without a user id
\* or with an invalid url no product page is requested.
C26_RecordOnlyAfterAllChecks ==
    /\ Len(clothingItems) <= 1
    /\ clothingItems # <<>> =>
          /\ session # NoSession
          /\ ValidUrl
          /\ result["p1"].kind = "resolved"
          /\ TruthyString(result["p1"].value.imageUrl)
          /\ requests["p1"] = 1
    /\ (session = NoSession \/ ~ValidUrl) => requests["p1"] = 0
    /\ importPc = "done" =>
          /\ (session = NoSession => reply.status = 401)
          /\ (clothingItems = <<>> <=> reply.status \in {401, 400, 500})
          /\ (clothingItems # <<>> <=> reply.success)

\* a request of a signed-in user for a page with an image has created one
\* record
C26_Witness ==
    /\ importPc = "done"
    /\ Len(clothingItems) = 1
    /\ session # NoSession /\ ValidUrl
    /\ clothingItems[1].imageUrl = result["p1"].value.imageUrl
    /\ reply.success


-----------------------------------------------------------------------------
(* Claims about handleApiResponse, under SpecApi *)

\* the inline parts of the first candidate of the response
InlineParts ==
    IF apiResponse.candidates = <<>> THEN {}
    ELSE {apiResponse.candidates[1].parts[i] :
            i \in {j \in DOMAIN apiResponse.candidates[1].parts :
                     apiResponse.candidates[1].parts[j].inline}}

HasBlockReason == apiResponse.blockReason # Undefined

\* a finish reason other than STOP is present on the first candidate
StoppedEarly ==
    /\ apiResponse.candidates # <<>>
    /\ apiResponse.candidates[1].finishReason \notin {Undefined, "STOP"}

\* C27: the checks run in a fixed order.  A response with a block reason
\* throws Request blocked, also when it holds an image; otherwise a first
\* candidate with an inline part returns data:<mimeType>;base64,<data>, also
\* when the finish reason is not STOP; otherwise a finish reason other than
\* STOP throws Generation stopped, and everything else throws No image
\* generated.  Nothing is returned without an inline part.
C27_ChecksInFixedOrder ==
    apiPc = "done" =>
        /\ HasBlockReason =>
              /\ apiResult.kind = "thrown"
              /\ apiResult.value \in
                    {"Request blocked: " \o apiResponse.blockReason \o ". " \o m :
                        m \in {"", "Unsafe prompt"}}
        /\ (~HasBlockReason /\ InlineParts # {}) =>
              /\ apiResult.kind = "returned"
              /\ apiResult.value \in
                    {"data:" \o p.mimeType \o ";base64," \o p.data : p \in InlineParts}
        /\ (~HasBlockReason /\ InlineParts = {} /\ StoppedEarly) =>
              apiResult = Thrown("Generation stopped for " \o apiContext \o ": "
                                 \o apiResponse.candidates[1].finishReason)
        /\ (~HasBlockReason /\ InlineParts = {} /\ ~StoppedEarly) =>
              apiResult = Thrown("No image generated for " \o apiContext)
        /\ InlineParts = {} => apiResult.kind = "thrown"

\* a blocked response that holds an image has thrown Request blocked
C27_Witness ==
    /\ apiPc = "done"
    /\ HasBlockReason
    /\ InlineParts # {}
    /\ apiResult = Thrown("Request blocked: SAFETY. Unsafe prompt")


-----------------------------------------------------------------------------
(* More claims about the try-on route, under SpecTry *)

\* the form was read and holds both images
FormComplete == tryForm.parse = "ok" /\ tryForm.userImage /\ tryForm.clothingImage

\* C28: generation is called only for a form with both images; a form
\* without one of them is answered 400 with no generation and no history
\* row; a row is written only after generation has succeeded; and an error
\* after the check of the images (reading them, generation, the history
\* write) is answered 500, never with the success response.
C28_GenerationOnlyWithBothImages ==
    /\ tryImage.status # "none" => FormComplete
    /\ tryHistory # <<>> => tryImage.status = "ok"
    /\ (tryPc = "done" /\ tryForm.parse = "ok" /\ ~FormComplete) =>
          /\ tryReply.status = 400
          /\ tryImage.status = "none"
          /\ tryHistory = <<>>
    /\ (tryPc = "done" /\ FormComplete) =>
          /\ tryReply.status \in {200, 500}
          /\ tryReply.success <=> tryReply.status = 200
          /\ tryReply.success =>
                /\ tryImage.status = "ok"
                /\ SavesHistory(trySession, tryForm) <=> tryHistory # <<>>
          /\ tryImage.status # "ok" => tryReply.status = 500

\* a form without the clothing image: 400, nothing generated, nothing written
C28_Witness ==
    /\ tryPc = "done"
    /\ tryForm.parse = "ok" /\ tryForm.userImage /\ ~tryForm.clothingImage
    /\ tryReply.status = 400
    /\ tryImage = NoImage
    /\ tryHistory = <<>>


-----------------------------------------------------------------------------
(* Claims about the VirtualTryOn component, under SpecUi *)

\* C29: at most one request of the two handlers is in flight at any time and
\* isLoading is true exactly while one is; a handler that starts a request
\* sets isLoading and clears error, and isLoading is false again once the
\* request has settled, with a result or with an error.
C29_OneRequestAndLoadingWhileInFlight ==
    /\ [](Len(inFlight) <= 1 /\ (isLoading <=> inFlight # <<>>))
    /\ [][Len(inFlight') > Len(inFlight) => (isLoading' /\ uiError' = Null)]_vars
    /\ [][Len(inFlight') < Len(inFlight) => ~isLoading']_vars

\* a request has failed: the error is shown and the loading state is over
C29_Witness ==
    /\ inFlight = <<>>
    /\ ~isLoading
    /\ uiError = "Failed to fetch"
    /\ userImage # Null /\ clothingImage # Null /\ resultImage = Null


-----------------------------------------------------------------------------
(* The verdict of checkFitCompatibility for positive user values, under SpecFit *)

AllUserValuesPositive == \A i \in DOMAIN userMeasurements : userMeasurements[i].value > 0

\* the percentage difference of a compared entry of the user
DiffOf(i) ==
    Frac((itemMeasurements[userMeasurements[i].key] - userMeasurements[i].value) * 100,
         userMeasurements[i].value)

\* C30: for user values that are all strictly positive, a run that compares
\* at least one key and emits no warning has every percentage difference in
\* -5..10, a score of at least 90 and fits = true; so fits is true exactly
\* when a key was compared and there is no warning.
C30_FitsIffComparedWithoutWarning ==
    (fitPc = "done" /\ AllUserValuesPositive) =>
        /\ (measurementCount >= 1 /\ fitResult.warnings = <<>>) =>
              /\ \A i \in Compared :
                    /\ ~NumLess(DiffOf(i), Frac(-5, 1))
                    /\ ~NumLess(Frac(10, 1), DiffOf(i))
              /\ ~NumLess(fitResult.score, Frac(90, 1))
              /\ fitResult.fits
        /\ fitResult.fits <=> (measurementCount >= 1 /\ fitResult.warnings = <<>>)

\* two keys compared at the two ends of the range: no warning, fits
C30_Witness ==
    /\ fitPc = "done" /\ AllUserValuesPositive
    /\ measurementCount = 2
    /\ \E i \in Compared : DiffOf(i) = Frac(10, 1)
    /\ \E i \in Compared : DiffOf(i) = Frac(-5, 1)
    /\ fitResult.warnings = <<>>
    /\ fitResult.fits

====
